---------------------------- MODULE Spec2Model ----------------------------
(***************************************************************************)
(* A model of the test-series tracker of src/TestSeriesTracker.jsx: the    *)
(* stored collection `tests`, the entry form, the confirmation modal, the  *)
(* toast, and the handlers that change them (add / edit / delete / import  *)
(* / clear-all), the filters and the values derived from them, the value   *)
(* saved to localStorage, the mock-test entry form (TestEntryForm) with    *)
(* the mock_tests collection, and a call of fetchWithRetry.                *)
(*                                                                         *)
(* JavaScript values are records [t, n, s]:                                *)
(*   t = "undefined" | "null" | "number" | "NaN" | "Infinity" | "string"   *)
(*   n   the value of a number, in units of 1/Scale (fixed point), or the  *)
(*       payload of a string that is the text of a number, a date, a uid   *)
(*   s   the text of a string; the strings that are the decimal text of a  *)
(*       number, the ISO text of a day, or a uid() result are written      *)
(*       [s |-> "#num" | "#date" | "#uid", n |-> value].                   *)
(* Arithmetic is exact rational arithmetic on the fixed-point values; the  *)
(* inputs of the model are chosen so that IEEE doubles agree with it.      *)
(***************************************************************************)
EXTENDS Integers, Sequences, FiniteSets, TLC

VARIABLES tests, form, confirmModal, toastAlert,
          filterProvider, filterSubject, dateFrom, dateTo, search,
          localStorage,
          formData, error, mockTests,
          fetch

\* the filter controls above the table
filters == <<filterProvider, filterSubject, dateFrom, dateTo, search>>

\* the state outside the TestSeriesTracker component: the mock-test entry
\* form (TestEntryForm) with the mock_tests collection it writes to, and a
\* call of fetchWithRetry
elsewhere == <<formData, error, mockTests, fetch>>

\* the state of the TestSeriesTracker component and the storage it saves to
tracker == <<tests, form, confirmModal, toastAlert, filters, localStorage>>

vars == <<tracker, elsewhere>>

-----------------------------------------------------------------------------
(* Bounds of the model *)

MaxTests == 1       \* the store holds at most this many entities
MaxId == 2          \* uid() draws from this many distinct strings
MaxBatch == 1       \* an imported array holds at most this many elements
Today == 2          \* the day new Date() falls on

\* one unit of a number is 1/Scale: 0.005
Scale == 2 * 100

-----------------------------------------------------------------------------
(* JavaScript values *)

Undef == [t |-> "undefined", n |-> 0, s |-> ""]
Null == [t |-> "null", n |-> 0, s |-> ""]
NaN == [t |-> "NaN", n |-> 0, s |-> ""]
\* the number Infinity, which JSON.parse reads of a numeral such as 1e999.
\* The model has no negative infinity: its inputs hold no negative number
\* next to an infinite one.
Infinity == [t |-> "Infinity", n |-> 0, s |-> ""]
\* the number u / Scale
Raw(u) == [t |-> "number", n |-> u, s |-> ""]
\* the number x, an integer
Num(x) == Raw(x * Scale)
\* the number x + 0.5
NumHalf(x) == Raw(x * Scale + Scale \div 2)
Str(s) == [t |-> "string", n |-> 0, s |-> s]
\* the string String(v) of a number v
NumStr(v) == [t |-> "string", n |-> v.n, s |-> "#num"]
\* the string "YYYY-MM-DD" of day d
DateStr(d) == [t |-> "string", n |-> d, s |-> "#date"]
\* the i-th string uid() can return
UidStr(i) == [t |-> "string", n |-> i, s |-> "#uid"]

IsNum(v) == v.t = "number"

\* ToBoolean: undefined, null, NaN, 0 and "" are falsy
Truthy(v) ==
    CASE v.t = "undefined" -> FALSE
      [] v.t = "null" -> FALSE
      [] v.t = "NaN" -> FALSE
      [] v.t = "number" -> v.n # 0
      [] v.t = "Infinity" -> TRUE
      [] OTHER -> v.s # ""

\* a || b
Or(a, b) == IF Truthy(a) THEN a ELSE b

\* Number(v): "" and whitespace give 0, text that is no numeral gives NaN
Number(v) ==
    CASE v.t = "undefined" -> NaN
      [] v.t = "null" -> Raw(0)
      [] v.t = "NaN" -> NaN
      [] v.t = "number" -> v
      [] v.t = "Infinity" -> v
      [] OTHER -> IF v.s = "#num" THEN Raw(v.n)
                  ELSE IF v.s \in {"", " "} THEN Raw(0)
                  ELSE IF v.s = "Infinity" THEN Infinity
                  ELSE NaN

\* String(v)
String(v) ==
    CASE v.t = "undefined" -> Str("undefined")
      [] v.t = "null" -> Str("null")
      [] v.t = "NaN" -> Str("NaN")
      [] v.t = "number" -> NumStr(v)
      [] v.t = "Infinity" -> Str("Infinity")
      [] OTHER -> v

\* s.trim() of a string value
Trim(v) == IF v.s = " " THEN Str("") ELSE v

\* isNaN(x), x > y, x <= y, x < y on numbers; every comparison with NaN is false
IsNaN(x) == x.t = "NaN"
Gt(x, y) ==
    \/ IsNum(x) /\ IsNum(y) /\ x.n > y.n
    \/ x = Infinity /\ IsNum(y)
Le(x, y) ==
    \/ IsNum(x) /\ IsNum(y) /\ x.n <= y.n
    \/ y = Infinity /\ (IsNum(x) \/ x = Infinity)
Lt(x, y) ==
    \/ IsNum(x) /\ IsNum(y) /\ x.n < y.n
    \/ IsNum(x) /\ y = Infinity

\* Math.round(n / d) for integers n, d with d # 0: floor(n/d + 1/2)
Round(n, d) ==
    IF d > 0 THEN (2 * n + d) \div (2 * d)
    ELSE (2 * (0 - n) + (0 - d)) \div (2 * (0 - d))

\* Math.round((a / b) * 10000) / 100 for numbers a, b
Round2Ratio(a, b) == Raw((Round(a * 10000, b) * Scale) \div 100)

-----------------------------------------------------------------------------
(* Program constants *)

TEST_CATEGORIES == <<"Topic Wise", "Subjectwise", "Multisubject Wise", "Full Length", "Mock">>
FULL_TEST_CATEGORIES == {"Multisubject Wise", "Full Length", "Mock"}
TEST_PROVIDERS == <<"Ace Academy", "PrepFusion", "Gate Academy", "Other">>
SUBJECT_REQUIRED_CATEGORIES == {"Topic Wise", "Subjectwise"}
DEFAULT_MULTI_SUBJECT == "Multi-Subject/Full Test"
ECE_SUBJECTS ==
    <<"Engineering Mathematics", "General Aptitude", "Network Theory",
      "Electronic Devices (EDC)", "Analog Circuits", "Digital Circuits",
      "Control Systems", "Electromagnetics (EMT)", "Communication Systems",
      "Signals and Systems", "Computer Organization & Architecture",
      DEFAULT_MULTI_SUBJECT, "Other/Unknown">>
\* ECE_SUBJECTS[0], the subject of a fresh form
FIRST_SUBJECT == "Engineering Mathematics"

\* uid(): a random 7-character string, taken to differ from every id in `used`.
\* No handler reads what the string is, so the model takes the first unused one
\* (none when the MaxId strings are all in use).
Uid(used) ==
    LET free == {i \in 1..MaxId : UidStr(i) \notin used}
    IN  {UidStr(i) : i \in {k \in free : \A m \in free : k <= m}}

\* new Date(d) is a date: d is the text of a day.  Of every other text the
\* model uses, new Date makes an Invalid Date.
IsDate(d) == d.t = "string" /\ d.s = "#date"
\* formatDateInput(d) throws: toISOString of an Invalid Date is a RangeError
FormatDateInputThrows(d) == Truthy(d) /\ ~IsDate(d)
\* formatDateInput(d), where it does not throw: the ISO day of new Date(d)
FormatDateInput(d) == IF ~Truthy(d) THEN Str("") ELSE DateStr(d.n)
\* formatDateInput(new Date())
FormatToday == DateStr(Today)
\* new Date(d) as a number: NaN for an Invalid Date
DateValue(d) == IF IsDate(d) THEN Raw(d.n) ELSE NaN

-----------------------------------------------------------------------------
(* State *)

NoToast == [message |-> "", type |-> ""]
Toast(m, ty) == [message |-> m, type |-> ty]

NoModal == [kind |-> "none", id |-> Null]

\* the modal, while open, covers the page (fixed inset-0): the page's controls
\* are used only while it is closed
PageUsable == confirmModal.kind = "none"

\* the form of useState / resetForm
EmptyForm ==
    [id |-> Null,
     subject |-> Str(FIRST_SUBJECT),
     category |-> Str(TEST_CATEGORIES[1]),
     provider |-> Str(TEST_PROVIDERS[1]),
     maxMarks |-> Str(""),
     obtainedMarks |-> Str(""),
     correctCount |-> Str(""),
     incorrectCount |-> Str(""),
     notAttemptedCount |-> Str(""),
     testRank |-> Str(""),
     totalTestTakers |-> Str(""),
     date |-> FormatToday,
     notes |-> Str("")]

\* the filters of useState: no filter is set
FiltersInit ==
    /\ filterProvider = Str("All")
    /\ filterSubject = Str("All")
    /\ dateFrom = Str("")
    /\ dateTo = Str("")
    /\ search = Str("")

\* localStorage.getItem(STORAGE_KEY): null when nothing is stored, else the
\* stored text.  A text is the JSON of an array (items: what it parses to) or
\* a text JSON.parse throws on.
NoItem == [kind |-> "null", items |-> <<>>]
JsonText(items) == [kind |-> "array", items |-> items]

\* what JSON.parse reads back of the value v after JSON.stringify: NaN and the
\* infinities are written as null; a property that is undefined is left out,
\* and reads as undefined
JsonOf(v) == IF v.t \in {"NaN", "Infinity"} THEN Null ELSE v

\* JSON.stringify(tests)
Stringify(seq) ==
    JsonText([i \in 1..Len(seq) |-> [f \in DOMAIN seq[i] |-> JsonOf(seq[i][f])]])

\* the initial state of tests: raw ? JSON.parse(raw) : [], and [] when
\* JSON.parse throws
InitialTests(raw) ==
    IF raw.kind = "array" THEN raw.items ELSE <<>>

\* the save effect, run after a render in which tests changed
SaveEffect == localStorage' = Stringify(tests')

\* the state of TestEntryForm's useState, new Date() falling on day Today
FormDataInit ==
    [provider |-> Str("Ace Academy"),
     testType |-> Str("Full Length Mock"),
     testName |-> Str(""),
     date |-> DateStr(Today),
     totalQuestions |-> Num(65),
     totalMarks |-> Num(100),
     timeTaken |-> Str(""),
     marksObtained |-> Str(""),
     negativeMarks |-> Str(""),
     rank |-> Str(""),
     totalStudents |-> Str(""),
     correct |-> Str(""),
     wrong |-> Str("")]

\* no call of fetchWithRetry is under way
\* pc: where the call stands; i, error: its locals; attempts: what each call
\* of fetch has come to, delays: the seconds of every wait begun, in order
FetchIdle ==
    [pc |-> "idle", i |-> 0, maxRetries |-> 0, error |-> "null",
     attempts |-> <<>>, delays |-> <<>>, result |-> ""]

ElsewhereInit ==
    /\ formData = FormDataInit
    /\ error = ""
    /\ mockTests = <<>>
    /\ fetch = FetchIdle

\* the state once the component is mounted and the save effect has run
Init ==
    /\ tests = <<>>
    /\ form = EmptyForm
    /\ confirmModal = NoModal
    /\ toastAlert = NoToast
    /\ FiltersInit
    /\ localStorage = Stringify(tests)
    /\ ElsewhereInit

Ids(seq) == {seq[i].id : i \in 1..Len(seq)}

\* the ids the program holds: uid() is taken not to collide with them
HeldIds == Ids(tests) \cup {form.id, confirmModal.id}

-----------------------------------------------------------------------------
(* arr.sort((a, b) => new Date(b.date) - new Date(a.date)): a stable sort, *)
(* newest first.  A comparator result of NaN (an Invalid Date on either    *)
(* side) counts as 0: the two elements compare equal.                       *)

RECURSIVE InsertByDateDesc(_, _)
InsertByDateDesc(sorted, e) ==
    IF sorted = <<>> THEN <<e>>
    ELSE IF Gt(DateValue(e.date), DateValue(Head(sorted).date))
         THEN <<e>> \o sorted
         ELSE <<Head(sorted)>> \o InsertByDateDesc(Tail(sorted), e)

RECURSIVE SortByDateDescFrom(_, _)
SortByDateDescFrom(done, rest) ==
    IF rest = <<>> THEN done
    ELSE SortByDateDescFrom(InsertByDateDesc(done, Head(rest)), Tail(rest))

SortByDateDesc(seq) == SortByDateDescFrom(<<>>, seq)

\* the comparator is a consistent comparison function for the elements of seq:
\* an Invalid Date compares equal to everything, so every two dates must
\* then compare equal
ConsistentDates(seq) ==
    \/ \A i \in 1..Len(seq) : IsDate(seq[i].date)
    \/ \A i, j \in 1..Len(seq) :
          IsDate(seq[i].date) /\ IsDate(seq[j].date) => seq[i].date = seq[j].date

\* the orders of the elements of seq
Reordered(seq) ==
    {[i \in 1..Len(seq) |-> seq[p[i]]] : p \in Permutations(1..Len(seq))}

\* what the sort can leave in the array: the stable order, or, the comparator
\* being inconsistent, an order the implementation defines
SortedByDateDesc(seq) ==
    IF ConsistentDates(seq) THEN {SortByDateDesc(seq)} ELSE Reordered(seq)

-----------------------------------------------------------------------------
(* handleAddOrUpdate *)

HasRank(f) == Truthy(f.testRank) /\ Truthy(f.totalTestTakers)

HasCounts(f) ==
    Truthy(f.correctCount) \/ Truthy(f.incorrectCount) \/ Truthy(f.notAttemptedCount)

\* a validation without the check of obtained marks against max marks
ValidationErrorNoMaxCheck(f) ==
    LET max == Number(f.maxMarks)
        obt == Number(f.obtainedMarks)
        correct == Number(f.correctCount)
        incorrect == Number(f.incorrectCount)
        notAttempted == Number(f.notAttemptedCount)
        rank == Number(f.testRank)
        totalTakers == Number(f.totalTestTakers)
    IN  IF ~Truthy(Trim(f.subject)) THEN "Please enter subject."
        ELSE IF ~Truthy(max) \/ Le(max, Raw(0))
            THEN "Max marks should be a positive number."
        ELSE IF IsNaN(obt) \/ Lt(obt, Raw(0))
            THEN "Obtained marks should be a non-negative number."
        ELSE IF IsNaN(correct) \/ Lt(correct, Raw(0))
            THEN "Correct count must be a non-negative number."
        ELSE IF IsNaN(incorrect) \/ Lt(incorrect, Raw(0))
            THEN "Incorrect count must be a non-negative number."
        ELSE IF IsNaN(notAttempted) \/ Lt(notAttempted, Raw(0))
            THEN "Not Attempted count must be a non-negative number."
        ELSE IF HasRank(f) /\ (~Truthy(rank) \/ Le(rank, Raw(0)))
            THEN "Your Rank must be a positive number."
        ELSE IF HasRank(f) /\ (~Truthy(totalTakers) \/ Le(totalTakers, Raw(0)))
            THEN "Total Test Takers must be a positive number."
        ELSE IF HasRank(f) /\ Gt(rank, totalTakers)
            THEN "Your Rank cannot be greater than Total Test Takers."
        ELSE ""

\* the message of the first validation that fails, "" when none does
ValidationError(f) ==
    LET max == Number(f.maxMarks)
        obt == Number(f.obtainedMarks)
        correct == Number(f.correctCount)
        incorrect == Number(f.incorrectCount)
        notAttempted == Number(f.notAttemptedCount)
        rank == Number(f.testRank)
        totalTakers == Number(f.totalTestTakers)
    IN  IF ~Truthy(Trim(f.subject)) THEN "Please enter subject."
        ELSE IF ~Truthy(max) \/ Le(max, Raw(0))
            THEN "Max marks should be a positive number."
        ELSE IF IsNaN(obt) \/ Lt(obt, Raw(0))
            THEN "Obtained marks should be a non-negative number."
        ELSE IF Gt(obt, max)
            THEN "Obtained marks cannot be greater than Max Marks."
        ELSE IF IsNaN(correct) \/ Lt(correct, Raw(0))
            THEN "Correct count must be a non-negative number."
        ELSE IF IsNaN(incorrect) \/ Lt(incorrect, Raw(0))
            THEN "Incorrect count must be a non-negative number."
        ELSE IF IsNaN(notAttempted) \/ Lt(notAttempted, Raw(0))
            THEN "Not Attempted count must be a non-negative number."
        ELSE IF HasRank(f) /\ (~Truthy(rank) \/ Le(rank, Raw(0)))
            THEN "Your Rank must be a positive number."
        ELSE IF HasRank(f) /\ (~Truthy(totalTakers) \/ Le(totalTakers, Raw(0)))
            THEN "Total Test Takers must be a positive number."
        ELSE IF HasRank(f) /\ Gt(rank, totalTakers)
            THEN "Your Rank cannot be greater than Total Test Takers."
        ELSE ""

\* max ? Math.round((obt / max) * 10000) / 100 : 0
Percentage(obt, max) ==
    IF ~Truthy(max) THEN Raw(0)
    ELSE IF max = Infinity THEN (IF obt = Infinity THEN NaN ELSE Raw(0))
    ELSE IF obt = Infinity THEN Infinity
    ELSE Round2Ratio(obt.n, max.n)

\* a rankPercentile that is the fraction ranked at or above, not below
RankPercentileNotInverted(rank, totalTakers) ==
    Round2Ratio(rank.n, totalTakers.n)

\* Math.round((1 - (rank / totalTakers)) * 10000) / 100
RankPercentile(rank, totalTakers) ==
    IF totalTakers = Infinity THEN (IF rank = Infinity THEN NaN ELSE Num(100))
    ELSE Round2Ratio(totalTakers.n - rank.n, totalTakers.n)

\* the entry built from the form; u is the value of uid()
Entry(f, u) ==
    LET max == Number(f.maxMarks)
        obt == Number(f.obtainedMarks)
        rank == Number(f.testRank)
        totalTakers == Number(f.totalTestTakers)
    IN  [id |-> Or(f.id, u),
         subject |-> Trim(f.subject),
         category |-> f.category,
         provider |-> f.provider,
         maxMarks |-> max,
         obtainedMarks |-> obt,
         percentage |-> Percentage(obt, max),
         correctCount |-> IF HasCounts(f) THEN Number(f.correctCount) ELSE Null,
         incorrectCount |-> IF HasCounts(f) THEN Number(f.incorrectCount) ELSE Null,
         notAttemptedCount |-> IF HasCounts(f) THEN Number(f.notAttemptedCount) ELSE Null,
         testRank |-> IF HasRank(f) THEN rank ELSE Null,
         totalTestTakers |-> IF HasRank(f) THEN totalTakers ELSE Null,
         rankPercentile |-> IF HasRank(f) THEN RankPercentile(rank, totalTakers) ELSE Null,
         date |-> Or(f.date, FormatToday),
         notes |-> Or(f.notes, Str(""))]

\* the setTests updater of handleAddOrUpdate: the collections it can return
AddOrReplace(prev, entry) ==
    IF \E i \in 1..Len(prev) : prev[i].id = entry.id
    THEN {[i \in 1..Len(prev) |-> IF prev[i].id = entry.id THEN entry ELSE prev[i]]}
    ELSE SortedByDateDesc(<<entry>> \o prev)

\* the toast the updater sets
SavedToast(prev, entry) ==
    IF \E i \in 1..Len(prev) : prev[i].id = entry.id
    THEN Toast("Test updated successfully!", "success")
    ELSE Toast("Test added successfully!", "success")

\* cap: the model lets the store grow to cap entities
HandleAddOrUpdate(cap) ==
    /\ PageUsable
    /\ IF ValidationError(form) # ""
       THEN /\ toastAlert' = Toast(ValidationError(form), "error")
            /\ UNCHANGED <<tests, form, confirmModal, filters, localStorage, elsewhere>>
       ELSE \E u \in (IF Truthy(form.id) THEN {Undef} ELSE Uid(HeldIds)) :
               LET entry == Entry(form, u) IN
               /\ \E next \in AddOrReplace(tests, entry) :
                     /\ Len(next) <= cap
                     /\ tests' = next
               /\ toastAlert' = SavedToast(tests, entry)
               /\ form' = EmptyForm
               /\ SaveEffect
               /\ UNCHANGED <<confirmModal, filters, elsewhere>>

-----------------------------------------------------------------------------
(* The form's controls *)

\* onChange of an input: setForm({ ...form, [field]: value })
OnChange(field, value) ==
    /\ PageUsable
    /\ form' = [form EXCEPT ![field] = value]
    /\ UNCHANGED <<tests, confirmModal, toastAlert, filters, localStorage, elsewhere>>

\* onChange of the category select
CategoryOnChange(newCategory) ==
    /\ PageUsable
    /\ form' = [form EXCEPT !.category = Str(newCategory),
                            !.subject = IF newCategory \in SUBJECT_REQUIRED_CATEGORIES
                                        THEN form.subject
                                        ELSE Str(DEFAULT_MULTI_SUBJECT)]
    /\ UNCHANGED <<tests, confirmModal, toastAlert, filters, localStorage, elsewhere>>

\* onChange of the subject select, rendered for the subject-required categories
\* with every subject of ECE_SUBJECTS but the multi-subject one
SubjectOnChange(sub) ==
    /\ PageUsable
    /\ form.category.s \in SUBJECT_REQUIRED_CATEGORIES
    /\ sub # DEFAULT_MULTI_SUBJECT
    /\ form' = [form EXCEPT !.subject = Str(sub)]
    /\ UNCHANGED <<tests, confirmModal, toastAlert, filters, localStorage, elsewhere>>

ResetForm ==
    /\ PageUsable
    /\ form' = EmptyForm
    /\ UNCHANGED <<tests, confirmModal, toastAlert, filters, localStorage, elsewhere>>

\* tests.find((x) => x.id === id): the index of the first match, 0 when none
FindIndex(seq, id) ==
    IF \E i \in 1..Len(seq) : seq[i].id = id
    THEN CHOOSE i \in 1..Len(seq) :
            /\ seq[i].id = id
            /\ \A j \in 1..(i - 1) : seq[j].id # id
    ELSE 0

\* the form handleEdit loads from the entity t
EditForm(t) ==
    [id |-> t.id,
     subject |-> t.subject,
     category |-> Or(t.category, Str(TEST_CATEGORIES[1])),
     provider |-> Or(t.provider, Str(TEST_PROVIDERS[1])),
     maxMarks |-> String(t.maxMarks),
     obtainedMarks |-> String(t.obtainedMarks),
     correctCount |-> String(Or(t.correctCount, Str(""))),
     incorrectCount |-> String(Or(t.incorrectCount, Str(""))),
     notAttemptedCount |-> String(Or(t.notAttemptedCount, Str(""))),
     testRank |-> String(Or(t.testRank, Str(""))),
     totalTestTakers |-> String(Or(t.totalTestTakers, Str(""))),
     date |-> FormatDateInput(t.date),
     notes |-> t.notes]

\* the handler throws, leaving the form as it is, when formatDateInput does
HandleEdit(id) ==
    /\ PageUsable
    /\ IF FindIndex(tests, id) = 0 \/ FormatDateInputThrows(tests[FindIndex(tests, id)].date)
       THEN form' = form
       ELSE form' = EditForm(tests[FindIndex(tests, id)])
    /\ UNCHANGED <<tests, confirmModal, toastAlert, filters, localStorage, elsewhere>>

-----------------------------------------------------------------------------
(* Delete, clear-all and the confirmation modal *)

\* a delete that does not wait for the confirmation
HandleDeleteAtOnce(id) ==
    /\ PageUsable
    /\ tests' = SelectSeq(tests, LAMBDA x : x.id # id)
    /\ toastAlert' = Toast("Test deleted.", "success")
    /\ SaveEffect
    /\ UNCHANGED <<form, confirmModal, filters, elsewhere>>

HandleDelete(id) ==
    /\ PageUsable
    /\ confirmModal' = [kind |-> "delete", id |-> id]
    /\ UNCHANGED <<tests, form, toastAlert, filters, localStorage, elsewhere>>

HandleClearAll ==
    /\ PageUsable
    /\ confirmModal' = [kind |-> "clear", id |-> Null]
    /\ UNCHANGED <<tests, form, toastAlert, filters, localStorage, elsewhere>>

\* prev.filter((x) => x.id !== id)
RECURSIVE WithoutId(_, _)
WithoutId(seq, id) ==
    IF seq = <<>> THEN <<>>
    ELSE IF Head(seq).id # id
         THEN <<Head(seq)>> \o WithoutId(Tail(seq), id)
         ELSE WithoutId(Tail(seq), id)

\* the modal's Confirm button: confirmModal.onConfirm(); setConfirmModal(null)
ConfirmClick ==
    /\ confirmModal.kind # "none"
    /\ IF confirmModal.kind = "delete"
       THEN /\ tests' = WithoutId(tests, confirmModal.id)
            /\ toastAlert' = Toast("Test deleted.", "success")
       ELSE /\ tests' = <<>>
            /\ toastAlert' = Toast("All test data cleared.", "success")
    /\ confirmModal' = NoModal
    /\ SaveEffect
    /\ UNCHANGED <<form, filters, elsewhere>>

\* the modal's Cancel button
CancelClick ==
    /\ confirmModal.kind # "none"
    /\ confirmModal' = NoModal
    /\ UNCHANGED <<tests, form, toastAlert, filters, localStorage, elsewhere>>

\* the toast's timer or its close button: setToastAlert(null)
CloseToast ==
    /\ toastAlert # NoToast
    /\ toastAlert' = NoToast
    /\ UNCHANGED <<tests, form, confirmModal, filters, localStorage, elsewhere>>

-----------------------------------------------------------------------------
(* The filters and the filtered collection *)

UpperCaseLetters == "ABCDEFGHIJKLMNOPQRSTUVWXYZ"
LowerCaseLetters == "abcdefghijklmnopqrstuvwxyz"

\* c.toLowerCase() of a text of one character
LowerOf(c) ==
    IF \E k \in 1..Len(UpperCaseLetters) : SubSeq(UpperCaseLetters, k, k) = c
    THEN LET k == CHOOSE k \in 1..Len(UpperCaseLetters) : SubSeq(UpperCaseLetters, k, k) = c
         IN  SubSeq(LowerCaseLetters, k, k)
    ELSE c

\* s.toLowerCase()
RECURSIVE ToLowerCase(_)
ToLowerCase(s) ==
    IF s = "" THEN ""
    ELSE LowerOf(SubSeq(s, 1, 1)) \o ToLowerCase(SubSeq(s, 2, Len(s)))

\* h.includes(n)
Includes(h, n) ==
    \E i \in 1..(Len(h) - Len(n) + 1) : SubSeq(h, i, i + Len(n) - 1) = n

\* the options of the subject filter
Subjects ==
    {"All"} \cup {Or(tests[i].subject, Str("Unknown")).s : i \in 1..Len(tests)}
            \cup {ECE_SUBJECTS[i] : i \in 1..Len(ECE_SUBJECTS)}

SetFilterProvider(p) ==
    /\ PageUsable
    /\ p \in {"All"} \cup {TEST_PROVIDERS[i] : i \in 1..Len(TEST_PROVIDERS)}
    /\ filterProvider' = Str(p)
    /\ UNCHANGED <<tests, form, confirmModal, toastAlert, localStorage, elsewhere,
                   filterSubject, dateFrom, dateTo, search>>

SetFilterSubject(sub) ==
    /\ PageUsable
    /\ sub \in Subjects
    /\ filterSubject' = Str(sub)
    /\ UNCHANGED <<tests, form, confirmModal, toastAlert, localStorage, elsewhere,
                   filterProvider, dateFrom, dateTo, search>>

\* d: the text of a day, or "" for a date input that is cleared
SetDateFrom(d) ==
    /\ PageUsable
    /\ dateFrom' = d
    /\ UNCHANGED <<tests, form, confirmModal, toastAlert, localStorage, elsewhere,
                   filterProvider, filterSubject, dateTo, search>>

SetDateTo(d) ==
    /\ PageUsable
    /\ dateTo' = d
    /\ UNCHANGED <<tests, form, confirmModal, toastAlert, localStorage, elsewhere,
                   filterProvider, filterSubject, dateFrom, search>>

SetSearch(text) ==
    /\ PageUsable
    /\ search' = Str(text)
    /\ UNCHANGED <<tests, form, confirmModal, toastAlert, localStorage, elsewhere,
                   filterProvider, filterSubject, dateFrom, dateTo>>

ProviderFilteredTests ==
    IF filterProvider = Str("All") THEN tests
    ELSE SelectSeq(tests, LAMBDA t : Or(t.provider, Str("Other")) = filterProvider)

\* the callback of providerFilteredTests.filter: t is kept
FilterKeeps(t) ==
    /\ ~(filterSubject # Str("All") /\ t.subject # filterSubject)
    /\ ~(Truthy(dateFrom) /\ Lt(DateValue(t.date), DateValue(dateFrom)))
    /\ ~(Truthy(dateTo) /\ Gt(DateValue(t.date), DateValue(dateTo)))
    /\ Truthy(search) =>
          LET s == ToLowerCase(search.s) IN
          ~(/\ ~Includes(ToLowerCase(t.subject.s), s)
            /\ ~Includes(ToLowerCase(Or(t.notes, Str("")).s), s)
            /\ ~Includes(ToLowerCase(Or(t.category, Str("")).s), s)
            /\ ~Includes(ToLowerCase(Or(t.provider, Str("")).s), s))

Filtered == SelectSeq(ProviderFilteredTests, FilterKeeps)

-----------------------------------------------------------------------------
(* The summary of the filtered collection *)

\* seq.reduce((a, b) => a + (b[field] || 0), 0), in units of 1/Scale
RECURSIVE SumOf(_, _)
SumOf(seq, field) ==
    IF seq = <<>> THEN 0
    ELSE SumOf(SubSeq(seq, 1, Len(seq) - 1), field)
            + Or(seq[Len(seq)][field], Raw(0)).n

\* a mean cut off after two decimals, not rounded
Round2MeanTruncated(sum, count) == Raw((((sum * 100) \div (Scale * count)) * Scale) \div 100)

\* Math.round((sum / count) * 100) / 100, sum in units of 1/Scale
Round2Mean(sum, count) == Raw((Round(sum * 100, Scale * count) * Scale) \div 100)

\* arr.sort(compare) of a stable sort whose comparator orders by ascending
\* key[i], the key of arr[i]: arr[i] comes after the elements of a smaller
\* key and after the earlier elements of the same key
StableSortByKey(arr, key) ==
    LET place(i) == 1 + Cardinality({j \in 1..Len(arr) :
                           key[j] < key[i] \/ (key[j] = key[i] /\ j < i)})
    IN  [pos \in 1..Len(arr) |-> arr[CHOOSE i \in 1..Len(arr) : place(i) = pos]]

\* a grouping that does not leave the multi-subject entities out
RECURSIVE SubjectKeysWithMultiSubject(_)
SubjectKeysWithMultiSubject(seq) ==
    IF seq = <<>> THEN <<>>
    ELSE LET before == SubjectKeysWithMultiSubject(SubSeq(seq, 1, Len(seq) - 1))
             sub == seq[Len(seq)].subject
         IN  IF \E i \in 1..Len(before) : before[i] = sub
             THEN before
             ELSE Append(before, sub)

\* Object.entries(bySubject): the subjects but the multi-subject one, each
\* once, in the order the loop over seq first meets them.  (The subjects of
\* the model are no array indices, which Object.entries would list first,
\* and no names of members of Object.prototype, on which the loop throws.)
RECURSIVE SubjectKeys(_)
SubjectKeys(seq) ==
    IF seq = <<>> THEN <<>>
    ELSE LET before == SubjectKeys(SubSeq(seq, 1, Len(seq) - 1))
             sub == seq[Len(seq)].subject
         IN  IF sub = Str(DEFAULT_MULTI_SUBJECT) \/ \E i \in 1..Len(before) : before[i] = sub
             THEN before
             ELSE Append(before, sub)

\* bySubject[subject].items
ItemsOf(seq, sub) == SelectSeq(seq, LAMBDA t : t.subject = sub)

\* summary.subjectAverages of the collection seq
SubjectAveragesOf(seq) ==
    LET keys == SubjectKeys(seq)
        groups == [k \in 1..Len(keys) |->
                     LET items == ItemsOf(seq, keys[k])
                     IN  [subject |-> keys[k],
                          avg |-> Round2Mean(SumOf(items, "percentage") , Len(items)),
                          count |-> Len(items),
                          items |-> items]]
    IN  StableSortByKey(groups, [k \in 1..Len(groups) |-> 0 - groups[k].avg.n])

RankedTests == SelectSeq(Filtered, LAMBDA t : t.rankPercentile # Null)

Summary ==
    [totalTests |-> Len(Filtered),
     avg |-> IF Len(Filtered) # 0
             THEN Round2Mean(SumOf(Filtered, "percentage"), Len(Filtered))
             ELSE Raw(0),
     subjectAverages |-> SubjectAveragesOf(Filtered),
     avgRankPercentile |-> IF Len(RankedTests) # 0
                           THEN Round2Mean(SumOf(RankedTests, "rankPercentile"),
                                           Len(RankedTests))
                           ELSE Null,
     rankedTestsCount |-> Len(RankedTests)]

\* a list cut to five groups before it is put in ascending order
TopWeakestSubjectsCutFirst(subjectAverages) ==
    LET weak == SelectSeq(subjectAverages, LAMBDA g : Lt(g.avg, Num(65)))
        cut == SubSeq(weak, 1, IF Len(weak) < 5 THEN Len(weak) ELSE 5)
    IN  StableSortByKey(cut, [k \in 1..Len(cut) |-> cut[k].avg.n])

\* topWeakestSubjects: .filter(s => s.avg < 65).sort((a, b) => a.avg - b.avg)
\* .slice(0, 5)
TopWeakestSubjectsOf(subjectAverages) ==
    LET weak == SelectSeq(subjectAverages, LAMBDA g : Lt(g.avg, Num(65)))
        sorted == StableSortByKey(weak, [k \in 1..Len(weak) |-> weak[k].avg.n])
    IN  SubSeq(sorted, 1, IF Len(sorted) < 5 THEN Len(sorted) ELSE 5)

TopWeakestSubjects == TopWeakestSubjectsOf(Summary.subjectAverages)

-----------------------------------------------------------------------------
(* The chart data.  A computation is followed through the arrays it touches: *)
(* mem.tests and mem.filtered are the stored and the filtered collection,    *)
(* mem.arr is the array the computation makes and mem.out what it returns.   *)
(* [...a], a.filter() and a.map() make a new array; a.sort() sorts a itself. *)

Mem == [tests |-> tests, filtered |-> Filtered, arr |-> <<>>, out |-> <<>>]

\* the keys (a, b) => new Date(a.date) - new Date(b.date) orders by, where it
\* is consistent: with an Invalid Date in seq every two elements compare equal
DateKeys(seq) ==
    [i \in 1..Len(seq) |->
        IF \A j \in 1..Len(seq) : IsDate(seq[j].date) THEN seq[i].date.n ELSE 0]

\* what arr.sort((a, b) => new Date(a.date) - new Date(b.date)) can leave in
\* arr: the stable order, oldest first, or, the comparator being inconsistent,
\* an order the implementation defines
SortedByDateAsc(seq) ==
    IF ConsistentDates(seq) THEN {StableSortByKey(seq, DateKeys(seq))} ELSE Reordered(seq)

TrendPoint(t) ==
    [name |-> t.date, percentage |-> t.percentage, category |-> t.category,
     subject |-> t.subject, provider |-> t.provider]

FullTestPoint(t) ==
    [name |-> t.date, percentage |-> t.percentage, category |-> t.category,
     provider |-> t.provider]

RankPoint(t) ==
    [name |-> t.date, rankPercentile |-> t.rankPercentile, category |-> t.category,
     subject |-> t.subject, provider |-> t.provider]

\* FULL_TEST_CATEGORIES.includes(t.category)
IsFullTest(t) == t.category.t = "string" /\ t.category.s \in FULL_TEST_CATEGORIES

HasRankPercentile(t) == t.rankPercentile # Null

\* filtered: providerFilteredTests is tests or tests.filter(...), and
\* filtered its .filter(...), a new array
FilteredMemo(mem) == {[mem EXCEPT !.arr = Filtered, !.out = Filtered]}

\* summary: reads filtered, sorts the new array Object.entries(...).map(...)
SummaryMemo(mem) ==
    {[mem EXCEPT !.arr = SubjectAveragesOf(mem.filtered), !.out = Summary]}

\* topWeakestSubjects: sorts the new array summary.subjectAverages.filter(...)
TopWeakestSubjectsMemo(mem) ==
    {[mem EXCEPT !.arr = TopWeakestSubjects, !.out = TopWeakestSubjects]}

\* a chart computation that sorts the filtered collection itself
OverallTrendChartDataInPlace(mem) ==
    {[mem EXCEPT !.filtered = a, !.arr = a,
                 !.out = [i \in 1..Len(a) |-> TrendPoint(a[i])]] :
        a \in SortedByDateAsc(mem.filtered)}

\* [...filtered].sort(...), then arr.map(...)
OverallTrendChartData(mem) ==
    LET copied == [mem EXCEPT !.arr = mem.filtered]
    IN  {[copied EXCEPT !.arr = a, !.out = [i \in 1..Len(a) |-> TrendPoint(a[i])]] :
            a \in SortedByDateAsc(copied.arr)}

\* filtered.filter(...).sort(...), then arr.map(...)
FullTestChartData(mem) ==
    LET made == [mem EXCEPT !.arr = SelectSeq(mem.filtered, IsFullTest)]
    IN  {[made EXCEPT !.arr = a, !.out = [i \in 1..Len(a) |-> FullTestPoint(a[i])]] :
            a \in SortedByDateAsc(made.arr)}

\* [...filtered].filter(...).sort(...), then arr.map(...)
RankChartData(mem) ==
    LET copied == [mem EXCEPT !.arr = mem.filtered]
        made == [copied EXCEPT !.arr = SelectSeq(copied.arr, HasRankPercentile)]
    IN  {[made EXCEPT !.arr = a, !.out = [i \in 1..Len(a) |-> RankPoint(a[i])]] :
            a \in SortedByDateAsc(made.arr)}

-----------------------------------------------------------------------------
(* The tabular (CSV) export *)

Digits == "0123456789"

\* the decimal text of a natural number
RECURSIVE NatText(_)
NatText(n) ==
    IF n < 10 THEN SubSeq(Digits, n + 1, n + 1)
    ELSE NatText(n \div 10) \o SubSeq(Digits, (n % 10) + 1, (n % 10) + 1)

\* the last `places` digits of k
RECURSIVE PadText(_, _)
PadText(k, places) ==
    IF places = 0 THEN "" ELSE PadText(k \div 10, places - 1) \o NatText(k % 10)

\* the decimals of k > 0, a number of `places` digits, without the zeros at
\* the end: 500 thousandths are "5", 25 thousandths "025"
RECURSIVE DecimalsText(_, _)
DecimalsText(k, places) ==
    IF k % 10 = 0 THEN DecimalsText(k \div 10, places - 1) ELSE PadText(k, places)

\* the text of the number u / Scale, as String() writes it
NumberText(u) ==
    LET a == IF u < 0 THEN 0 - u ELSE u
        thousandths == ((a % Scale) * 1000) \div Scale
    IN  (IF u < 0 THEN "-" ELSE "")
           \o NatText(a \div Scale)
           \o (IF thousandths = 0 THEN "" ELSE "." \o DecimalsText(thousandths, 3))

\* the characters of the string value v
TextOf(v) ==
    CASE v.s = "#num" -> NumberText(v.n)
      [] v.s = "#date" -> "2024-01-" \o (IF v.n < 10 THEN "0" ELSE "") \o NatText(v.n)
      [] v.s = "#uid" -> "uid" \o NatText(v.n)
      [] OTHER -> v.s

\* s.replace(/"/g, '""')
RECURSIVE DoubleQuotes(_)
DoubleQuotes(s) ==
    IF s = "" THEN ""
    ELSE (IF SubSeq(s, 1, 1) = "\"" THEN "\"\"" ELSE SubSeq(s, 1, 1))
            \o DoubleQuotes(SubSeq(s, 2, Len(s)))

\* an escape that wraps the text in quotes and leaves the quotes inside single
CsvEscapeNoDoubling(val) ==
    IF val = Null \/ val = Undef THEN ""
    ELSE LET s == TextOf(String(val))
         IN  IF Includes(s, ",") \/ Includes(s, "\n") \/ Includes(s, "\"")
             THEN "\"" \o s \o "\""
             ELSE s

\* csvEscape(val)
CsvEscape(val) ==
    IF val = Null \/ val = Undef THEN ""
    ELSE LET s == TextOf(String(val))
         IN  IF Includes(s, ",") \/ Includes(s, "\n") \/ Includes(s, "\"")
             THEN "\"" \o DoubleQuotes(s) \o "\""
             ELSE s

\* texts.join(sep)
RECURSIVE Join(_, _)
Join(texts, sep) ==
    IF texts = <<>> THEN ""
    ELSE IF Len(texts) = 1 THEN texts[1]
    ELSE texts[1] \o sep \o Join(Tail(texts), sep)

CsvHeaders ==
    <<"subject", "category", "provider", "maxMarks", "obtainedMarks", "correctCount",
      "incorrectCount", "notAttemptedCount", "percentage", "testRank",
      "totalTestTakers", "rankPercentile", "date", "notes">>

\* the values of the row of t, before csvEscape
CsvValues(t) ==
    <<t.subject, t.category, t.provider, t.maxMarks, t.obtainedMarks,
      Or(t.correctCount, Str("")), Or(t.incorrectCount, Str("")),
      Or(t.notAttemptedCount, Str("")), t.percentage, Or(t.testRank, Str("")),
      Or(t.totalTestTakers, Str("")), Or(t.rankPercentile, Str("")), t.date, t.notes>>

\* the row of t
CsvRow(t) ==
    Join([k \in 1..Len(CsvHeaders) |-> CsvEscape(CsvValues(t)[k])], ",")

\* handleExportCSV: the array rows it builds and the text of the file
HandleExportCSV(mem) ==
    LET rows == <<Join(CsvHeaders, ",")>>
                    \o [i \in 1..Len(mem.tests) |-> CsvRow(mem.tests[i])]
    IN  {[mem EXCEPT !.arr = rows, !.out = Join(rows, "\n")]}

-----------------------------------------------------------------------------
(* Export and import of the interchange (JSON) format *)

EntityFields ==
    {"id", "subject", "category", "provider", "maxMarks", "obtainedMarks",
     "percentage", "correctCount", "incorrectCount", "notAttemptedCount",
     "testRank", "totalTestTakers", "rankPercentile", "date", "notes"}

\* JSON.stringify then JSON.parse of one value of an object: a property that is
\* undefined is left out, so it reads back undefined; NaN is written as null
JsonValue(v) ==
    CASE v.t = "undefined" -> Undef
      [] v.t = "NaN" -> Null
      [] OTHER -> v

\* JSON.parse(JSON.stringify(tests, null, 2)): the payload handleExportJSON
\* writes, as a reader of the file parses it
ExportedJSON(seq) ==
    [kind |-> "array",
     items |-> [i \in 1..Len(seq) |->
                  [f \in EntityFields \cup {"json"} |->
                     IF f = "json" THEN Str("object") ELSE JsonValue(seq[i][f])]]]

\* handleExportJSON: the text of the file, as a reader of it parses it
HandleExportJSON(mem) == {[mem EXCEPT !.out = ExportedJSON(mem.tests)]}

\* a normalization that keeps a count from 0 on, not above 0
NormalizedCountsFromZero(d, u) ==
    LET max == Or(Number(d.maxMarks), Raw(0))
        obt == Or(Number(d.obtainedMarks), Raw(0))
        rank == Number(d.testRank)
        totalTakers == Number(d.totalTestTakers)
        hasRank == Gt(rank, Raw(0)) /\ Gt(totalTakers, Raw(0)) /\ Le(rank, totalTakers)
    IN  [id |-> Or(d.id, u),
         subject |-> Or(d.subject, Str("Unknown")),
         category |-> Or(d.category, Str(TEST_CATEGORIES[1])),
         provider |-> Or(d.provider, Str(TEST_PROVIDERS[1])),
         maxMarks |-> max,
         obtainedMarks |-> obt,
         correctCount |-> IF Le(Raw(0), Number(d.correctCount))
                          THEN Number(d.correctCount) ELSE Null,
         incorrectCount |-> IF Le(Raw(0), Number(d.incorrectCount))
                            THEN Number(d.incorrectCount) ELSE Null,
         notAttemptedCount |-> IF Le(Raw(0), Number(d.notAttemptedCount))
                               THEN Number(d.notAttemptedCount) ELSE Null,
         percentage |-> Percentage(obt, max),
         testRank |-> IF hasRank THEN rank ELSE Null,
         totalTestTakers |-> IF hasRank THEN totalTakers ELSE Null,
         rankPercentile |-> IF hasRank THEN RankPercentile(rank, totalTakers) ELSE Null,
         date |-> Or(d.date, FormatToday),
         notes |-> Or(d.notes, Str(""))]

\* one element of data.map((d) => ...); u is the value of uid()
Normalized(d, u) ==
    LET max == Or(Number(d.maxMarks), Raw(0))
        obt == Or(Number(d.obtainedMarks), Raw(0))
        rank == Number(d.testRank)
        totalTakers == Number(d.totalTestTakers)
        hasRank == Gt(rank, Raw(0)) /\ Gt(totalTakers, Raw(0)) /\ Le(rank, totalTakers)
    IN  [id |-> Or(d.id, u),
         subject |-> Or(d.subject, Str("Unknown")),
         category |-> Or(d.category, Str(TEST_CATEGORIES[1])),
         provider |-> Or(d.provider, Str(TEST_PROVIDERS[1])),
         maxMarks |-> max,
         obtainedMarks |-> obt,
         correctCount |-> IF Gt(Number(d.correctCount), Raw(0))
                          THEN Number(d.correctCount) ELSE Null,
         incorrectCount |-> IF Gt(Number(d.incorrectCount), Raw(0))
                            THEN Number(d.incorrectCount) ELSE Null,
         notAttemptedCount |-> IF Gt(Number(d.notAttemptedCount), Raw(0))
                               THEN Number(d.notAttemptedCount) ELSE Null,
         percentage |-> Percentage(obt, max),
         testRank |-> IF hasRank THEN rank ELSE Null,
         totalTestTakers |-> IF hasRank THEN totalTakers ELSE Null,
         rankPercentile |-> IF hasRank THEN RankPercentile(rank, totalTakers) ELSE Null,
         date |-> Or(d.date, FormatToday),
         notes |-> Or(d.notes, Str(""))]

\* an import that takes whatever parses, an object included, as an array
ImportErrorNoArrayCheck(payload) ==
    IF payload.kind = "unparsable" THEN "Unexpected token"
    ELSE IF \E i \in 1..Len(payload.items) : payload.items[i].json = Null
        THEN "Cannot read properties of null"
    ELSE ""

\* the outcome of the try block of reader.onload on the text read: "" when the
\* import goes through, else the message of the error thrown.  Reading a
\* property of an element that is null throws a TypeError.
ImportError(payload) ==
    IF payload.kind = "unparsable" THEN "Unexpected token"
    ELSE IF payload.kind # "array"
        THEN "Invalid file format. Ensure it's an array of test objects."
    ELSE IF \E i \in 1..Len(payload.items) : payload.items[i].json = Null
        THEN "Cannot read properties of null"
    ELSE ""

\* handleImportJSON(file) together with the reader.onload it registers, the
\* file's text parsing to payload; us[i] is the value of uid() for the i-th
\* element; cap: the model lets the store grow to cap entities.  Between the
\* handler and onload only the toast differs (it is null), and onload's
\* updater reads the store as it is when onload runs, so the two are one step.
HandleImportJSON(payload, us, cap) ==
    /\ PageUsable
    /\ IF ImportError(payload) # ""
       THEN /\ toastAlert' = Toast("Failed to import: " \o ImportError(payload), "error")
            /\ UNCHANGED <<tests, localStorage>>
       ELSE LET data == payload.items
                normalized == [i \in 1..Len(data) |-> Normalized(data[i], us[i])]
            IN  /\ Len(normalized) + Len(tests) <= cap
                /\ tests' \in SortedByDateDesc(normalized \o tests)
                /\ toastAlert' = Toast("Data imported successfully!", "success")
                /\ SaveEffect
    /\ UNCHANGED <<form, confirmModal, filters, elsewhere>>

-----------------------------------------------------------------------------
(* Inputs and specifications *)

\* a well-formed element of an imported array: 22.5 of 30 on day 1, no id
BaseElement ==
    [json |-> Str("object"),
     id |-> Undef,
     subject |-> Str("Control Systems"),
     category |-> Str("Topic Wise"),
     provider |-> Str("Ace Academy"),
     maxMarks |-> Num(30),
     obtainedMarks |-> NumHalf(22),
     percentage |-> Undef,
     correctCount |-> Undef,
     incorrectCount |-> Undef,
     notAttemptedCount |-> Undef,
     testRank |-> Undef,
     totalTestTakers |-> Undef,
     rankPercentile |-> Undef,
     date |-> DateStr(1),
     notes |-> Undef]

\* the element null of an imported array
NullElement == [f \in DOMAIN BaseElement |-> IF f = "json" THEN Null ELSE Undef]

\* the arrays of at most batch elements of els
Arrays(els, batch) == UNION {[1..n -> els] : n \in 0..batch}

\* a text that is no JSON, and one that is a JSON object
Unparsable == [kind |-> "unparsable", items |-> <<>>]
JsonObject == [kind |-> "object", items |-> <<>>]

\* what the text of an imported file can parse to
Payloads(els, batch) ==
    {Unparsable, JsonObject} \cup {[kind |-> "array", items |-> a] : a \in Arrays(els, batch)}

\* the values uid() returns for the elements of data: one fresh string for each
\* element without an id, all different
RECURSIVE UidsFor(_, _)
UidsFor(data, used) ==
    IF data = <<>> THEN {<<>>}
    ELSE IF Truthy(Head(data).id)
         THEN {<<Undef>> \o rest : rest \in UidsFor(Tail(data), used)}
         ELSE UNION {{<<u>> \o rest : rest \in UidsFor(Tail(data), used \cup {u})} :
                        u \in Uid(used)}

UidChoices(data) == UidsFor(data, HeldIds \cup Ids(data))

\* typed: the <<field, text>> pairs typed into the form's inputs; cats, subs:
\* the options picked in the category and subject selects; els: the elements
\* imported files are made of, at most batch to a file; cap: the size the
\* store grows to
NextOf(typed, cats, subs, els, cap, batch) ==
    \/ \E fv \in typed : OnChange(fv[1], fv[2])
    \/ \E c \in cats : CategoryOnChange(c)
    \/ \E sub \in subs : SubjectOnChange(sub)
    \/ ResetForm
    \/ HandleAddOrUpdate(cap)
    \/ \E i \in 1..Len(tests) : HandleEdit(tests[i].id)
    \/ \E i \in 1..Len(tests) : HandleDelete(tests[i].id)
    \/ HandleClearAll
    \/ ConfirmClick
    \/ CancelClick
    \/ CloseToast
    \/ \E payload \in Payloads(els, batch) : \E us \in UidChoices(payload.items) :
          HandleImportJSON(payload, us, cap)

\* the text of the number x, and of x + 0.5
Text(x) == NumStr(Num(x))
TextHalf(x) == NumStr(NumHalf(x))

\* Marks: the marks fields vary
MarksTyped ==
    {<<"maxMarks", Text(30)>>, <<"maxMarks", Text(0)>>,
     <<"obtainedMarks", TextHalf(22)>>, <<"obtainedMarks", Text(35)>>}

MarksElements ==
    {[BaseElement EXCEPT !.percentage = Num(99)],
     [BaseElement EXCEPT !.maxMarks = Undef],
     [BaseElement EXCEPT !.obtainedMarks = Num(35)],
     [BaseElement EXCEPT !.obtainedMarks = Num(10), !.date = Undef]}

NextMarks ==
    NextOf(MarksTyped, {TEST_CATEGORIES[1]}, {FIRST_SUBJECT}, MarksElements,
           MaxTests, MaxBatch)

SpecMarks == Init /\ [][NextMarks]_vars

\* Rank: the rank fields vary
RankTyped ==
    {<<"maxMarks", Text(30)>>, <<"obtainedMarks", TextHalf(22)>>,
     <<"testRank", Text(15)>>, <<"totalTestTakers", Text(500)>>}

RankElements ==
    {[BaseElement EXCEPT !.testRank = Num(15), !.totalTestTakers = Num(500),
                         !.rankPercentile = Num(5)],
     [BaseElement EXCEPT !.testRank = NumHalf(0), !.totalTestTakers = Num(1)],
     [BaseElement EXCEPT !.testRank = Num(3)],
     [BaseElement EXCEPT !.testRank = Num(20), !.totalTestTakers = Num(10),
                         !.rankPercentile = Num(5)]}

NextRank ==
    NextOf(RankTyped, {TEST_CATEGORIES[1]}, {FIRST_SUBJECT}, RankElements,
           MaxTests, MaxBatch)

SpecRank == Init /\ [][NextRank]_vars

\* Ids: imported elements with and without an id, and room for one entity and
\* one element more
IdTyped ==
    {<<"maxMarks", Text(30)>>, <<"obtainedMarks", TextHalf(22)>>,
     <<"date", DateStr(1)>>, <<"notes", Str("revise")>>}

IdElements ==
    {BaseElement,
     [BaseElement EXCEPT !.id = UidStr(1), !.date = DateStr(Today)],
     NullElement}

Next ==
    NextOf(IdTyped, {TEST_CATEGORIES[1]}, {FIRST_SUBJECT}, IdElements,
           MaxTests + 1, MaxBatch + 1)

Spec == Init /\ [][Next]_vars

\* Counts: the count fields vary
CountTyped ==
    {<<"maxMarks", Text(30)>>, <<"obtainedMarks", TextHalf(22)>>,
     <<"correctCount", Text(5)>>, <<"incorrectCount", Text(0)>>,
     <<"notAttemptedCount", Text(3)>>}

CountElements ==
    {[BaseElement EXCEPT !.correctCount = Num(5), !.incorrectCount = Num(0),
                         !.notAttemptedCount = Num(3)],
     [BaseElement EXCEPT !.correctCount = Num(5), !.incorrectCount = Num(2),
                         !.notAttemptedCount = Num(3)],
     BaseElement}

NextCounts ==
    NextOf(CountTyped, {TEST_CATEGORIES[1]}, {FIRST_SUBJECT}, CountElements,
           MaxTests, MaxBatch)

SpecCounts == Init /\ [][NextCounts]_vars

\* Import: files that cannot be read as an array of objects, and files that can
ImportTyped ==
    {<<"maxMarks", Text(30)>>, <<"obtainedMarks", TextHalf(22)>>,
     <<"notes", Str("revise")>>}

ImportElements == {BaseElement, [BaseElement EXCEPT !.date = Undef], NullElement}

NextImport ==
    NextOf(ImportTyped, {TEST_CATEGORIES[1]}, {FIRST_SUBJECT}, ImportElements,
           MaxTests, MaxBatch)

SpecImport == Init /\ [][NextImport]_vars

\* Validation: handleAddOrUpdate on every combination of these texts in the
\* form, over the empty store and over a store of one entity.  The blank
\* subject is the one handleEdit loads from an imported entity.
ValidationForms ==
    {[EmptyForm EXCEPT !.id = id, !.subject = sub, !.maxMarks = max,
                       !.obtainedMarks = obt, !.correctCount = c,
                       !.incorrectCount = i, !.notAttemptedCount = n,
                       !.testRank = rank, !.totalTestTakers = tot] :
        id \in {Null, UidStr(1)},
        sub \in {Str(FIRST_SUBJECT), Str(" ")},
        max \in {Text(30), Text(0), Text(-30), Str("abc")},
        obt \in {TextHalf(22), Text(35), Text(-1), Str("abc"), Str("")},
        c \in {Str(""), Text(-1)},
        i \in {Str(""), Text(0), Text(-1)},
        n \in {Str(""), Text(-1)},
        rank \in {Str(""), Text(15), Text(0)},
        tot \in {Str(""), Text(500), Text(10), Text(-2)}}

ValidationStores ==
    {<<>>, <<Normalized([BaseElement EXCEPT !.id = UidStr(1)], Undef)>>}

InitValidation ==
    /\ tests \in ValidationStores
    /\ form \in ValidationForms
    /\ confirmModal = NoModal
    /\ toastAlert = NoToast
    /\ FiltersInit
    /\ localStorage = Stringify(tests)
    /\ ElsewhereInit

NextValidation ==
    \/ HandleAddOrUpdate(MaxTests)
    \/ ResetForm
    \/ CloseToast
    \/ \E i \in 1..Len(tests) : HandleEdit(tests[i].id)

SpecValidation == InitValidation /\ [][NextValidation]_vars

\* Filter: entities of several subjects, categories, providers and dates are
\* imported and the filters set.  The third element has a date that is no
\* date: the import stores whatever text the file gives.
FilterElements ==
    {BaseElement,
     [BaseElement EXCEPT !.subject = Str(DEFAULT_MULTI_SUBJECT), !.category = Str("Mock"),
                         !.provider = Str("PrepFusion"), !.date = Undef,
                         !.notes = Str("Revise control loops")],
     [BaseElement EXCEPT !.provider = Str("Other"), !.date = Str("soon")]}

FilterProviders == {"All", "Ace Academy", "Other"}
FilterSubjects == {"All", "Control Systems"}
FilterDates == {Str(""), DateStr(1), DateStr(Today)}
FilterSearches == {"", "CONTROL", "mock"}

NextFilter ==
    \/ \E payload \in Payloads(FilterElements, MaxBatch) :
          \E us \in UidChoices(payload.items) :
             HandleImportJSON(payload, us, MaxTests + 1)
    \/ CloseToast
    \/ \E p \in FilterProviders : SetFilterProvider(p)
    \/ \E sub \in FilterSubjects : SetFilterSubject(sub)
    \/ \E d \in FilterDates : SetDateFrom(d)
    \/ \E d \in FilterDates : SetDateTo(d)
    \/ \E text \in FilterSearches : SetSearch(text)

SpecFilter == Init /\ [][NextFilter]_vars

\* Summary: entities of 40, 60, 50, 75 and 90 percent, three of them of one
\* subject and three of them ranked, are imported, and the provider and
\* subject filters set.  The elements carry ids, as those of an exported file.
SummaryElements ==
    {[BaseElement EXCEPT !.id = Str("t40"), !.obtainedMarks = Num(12),
                         !.testRank = Num(15), !.totalTestTakers = Num(500)],
     [BaseElement EXCEPT !.id = Str("t60"), !.obtainedMarks = Num(18)],
     [BaseElement EXCEPT !.id = Str("t50"), !.obtainedMarks = Num(15),
                         !.provider = Str("Other"),
                         !.testRank = Num(1), !.totalTestTakers = Num(2)],
     [BaseElement EXCEPT !.id = Str("t75"), !.subject = Str("Network Theory")],
     [BaseElement EXCEPT !.id = Str("t90"), !.subject = Str(DEFAULT_MULTI_SUBJECT),
                         !.category = Str("Mock"), !.obtainedMarks = Num(27),
                         !.testRank = Num(3), !.totalTestTakers = Num(4)]}

NextSummary ==
    \/ \E payload \in Payloads(SummaryElements, MaxBatch) :
          \E us \in UidChoices(payload.items) :
             HandleImportJSON(payload, us, MaxTests + 2)
    \/ CloseToast
    \/ \E p \in {"All", "Other"} : SetFilterProvider(p)
    \/ \E sub \in {"All", "Control Systems"} : SetFilterSubject(sub)

SpecSummary == Init /\ [][NextSummary]_vars

\* Weakest subjects: the store holds some of eight entities of eight
\* subjects, of 10, 20, 30, 40, 50, 60, 65 and 90 percent, in any one order
\* that imports leave them in; the provider filter and the search are set
WeakestMarks == <<Num(3), Num(6), Num(9), Num(12), Num(15), Num(18), NumHalf(19), Num(27)>>

WeakestEntities ==
    [k \in 1..Len(WeakestMarks) |->
        Normalized([BaseElement EXCEPT
                       !.id = UidStr(k),
                       !.subject = Str(ECE_SUBJECTS[k]),
                       !.provider = IF k % 2 = 0 THEN Str("Other") ELSE Str("Ace Academy"),
                       !.obtainedMarks = WeakestMarks[k]], Undef)]

\* the subsequences of seq
RECURSIVE SubSequences(_)
SubSequences(seq) ==
    IF seq = <<>> THEN {<<>>}
    ELSE LET rest == SubSequences(Tail(seq))
         IN  rest \cup {<<Head(seq)>> \o r : r \in rest}

InitWeakest ==
    /\ tests \in SubSequences(WeakestEntities)
    /\ form = EmptyForm
    /\ confirmModal = NoModal
    /\ toastAlert = NoToast
    /\ FiltersInit
    /\ localStorage = Stringify(tests)
    /\ ElsewhereInit

NextWeakest ==
    \/ \E p \in {"All", "Other"} : SetFilterProvider(p)
    \/ \E text \in {"", "WISE"} : SetSearch(text)

SpecWeakest == InitWeakest /\ [][NextWeakest]_vars

\* Trend: entities of two days, two of them of the same day, two of them
\* full tests and two ranked, and one whose date is no date, are imported and
\* the provider filter set
TrendElements ==
    {[BaseElement EXCEPT !.id = Str("a")],
     [BaseElement EXCEPT !.id = Str("b"), !.category = Str("Mock"),
                         !.provider = Str("Other"), !.obtainedMarks = Num(12),
                         !.testRank = Num(15), !.totalTestTakers = Num(500)],
     [BaseElement EXCEPT !.id = Str("c"), !.category = Str("Full Length"),
                         !.provider = Str("Other"), !.date = Undef,
                         !.testRank = Num(1), !.totalTestTakers = Num(2)],
     [BaseElement EXCEPT !.id = Str("d"), !.date = Str("soon")]}

NextTrend ==
    \/ \E payload \in Payloads(TrendElements, MaxBatch) :
          \E us \in UidChoices(payload.items) :
             HandleImportJSON(payload, us, MaxTests + 2)
    \/ CloseToast
    \/ \E p \in {"All", "Other"} : SetFilterProvider(p)

SpecTrend == Init /\ [][NextTrend]_vars

\* CSV: notes with a comma, a newline and quotes are typed, and elements with
\* a comma in the subject and quotes around the notes imported
CsvTyped ==
    {<<"maxMarks", Text(30)>>, <<"obtainedMarks", TextHalf(22)>>,
     <<"notes", Str("a,b\nc")>>, <<"notes", Str("say \"hi\"")>>}

CsvElements ==
    {[BaseElement EXCEPT !.subject = Str("Signals, Systems")],
     [BaseElement EXCEPT !.notes = Str("\"quoted\""), !.testRank = Num(15),
                         !.totalTestTakers = Num(500)]}

NextCsv ==
    \/ \E fv \in CsvTyped : OnChange(fv[1], fv[2])
    \/ HandleAddOrUpdate(MaxTests)
    \/ \E payload \in Payloads(CsvElements, MaxBatch) :
          \E us \in UidChoices(payload.items) :
             HandleImportJSON(payload, us, MaxTests)
    \/ \E i \in 1..Len(tests) : HandleDelete(tests[i].id)
    \/ HandleClearAll
    \/ ConfirmClick
    \/ CloseToast

SpecCsv == Init /\ [][NextCsv]_vars

-----------------------------------------------------------------------------
(* Properties *)

Entities == {tests[i] : i \in 1..Len(tests)}

\* h is Math.round(n / d): d is not 0 and h - 1/2 <= n/d < h + 1/2
IsRounded(h, n, d) ==
    /\ d # 0
    /\ LET nn == IF d > 0 THEN n ELSE 0 - n
           dd == IF d > 0 THEN d ELSE 0 - d
       IN  2 * h * dd - dd <= 2 * nn /\ 2 * nn < 2 * h * dd + dd

\* the number p is Math.round((n / d) * 10000) / 100
IsRound2Ratio(p, n, d) ==
    /\ IsNum(p)
    /\ (p.n * 100) % Scale = 0
    /\ IsRounded((p.n * 100) \div Scale, n * 10000, d)

\* C1: every stored entity has maxMarks > 0 and 0 <= obtainedMarks <= maxMarks.
C1_MarksInvariant ==
    \A e \in Entities :
        /\ IsNum(e.maxMarks) /\ IsNum(e.obtainedMarks)
        /\ e.maxMarks.n > 0
        /\ 0 <= e.obtainedMarks.n
        /\ e.obtainedMarks.n <= e.maxMarks.n

\* C2: every stored entity has testRank and totalTestTakers both null, or both
\* numbers with 1 <= testRank <= totalTestTakers; rankPercentile is null
\* exactly when the pair is null.
C2_RankPairInvariant ==
    \A e \in Entities :
        \/ e.testRank = Null /\ e.totalTestTakers = Null /\ e.rankPercentile = Null
        \/ /\ IsNum(e.testRank) /\ IsNum(e.totalTestTakers)
           /\ Scale <= e.testRank.n
           /\ e.testRank.n <= e.totalTestTakers.n
           /\ e.rankPercentile # Null

\* C3: no two entities of the stored collection have the same id.
C3_UniqueIds ==
    \A i, j \in 1..Len(tests) : i # j => tests[i].id # tests[j].id

\* C4: the percentage of every stored entity is
\* round(obtainedMarks / maxMarks * 10000) / 100 of its own marks.
C4_PercentageFromMarks ==
    \A e \in Entities :
        IsRound2Ratio(e.percentage, e.obtainedMarks.n, e.maxMarks.n)

\* C5: the rankPercentile of every stored entity with a rank pair is
\* round((1 - testRank / totalTestTakers) * 10000) / 100 of its own rank
\* fields, and null when the entity has no rank pair.
C5_RankPercentileFromRank ==
    \A e \in Entities :
        IF IsNum(e.testRank) /\ IsNum(e.totalTestTakers)
        THEN IsRound2Ratio(e.rankPercentile,
                           e.totalTestTakers.n - e.testRank.n, e.totalTestTakers.n)
        ELSE e.rankPercentile = Null

\* an imported entity (day 1) of rank 15 among 500, whose file gave the
\* rankPercentile 5, stored with rankPercentile 97
C5_Witness ==
    \E e \in Entities :
        /\ e.date = DateStr(1)
        /\ e.testRank = Num(15) /\ e.totalTestTakers = Num(500)
        /\ e.rankPercentile = Num(97)

\* C7: a submission with a rank and no total test-takers, or with total
\* test-takers and no rank, is rejected with an error and stores nothing.
C7_HalfRankPairRejected ==
    [][(HandleAddOrUpdate(Len(tests) + 1) /\ (Truthy(form.testRank) # Truthy(form.totalTestTakers)))
          => (tests' = tests /\ toastAlert'.type = "error")]_vars

\* the conditions of C6 that the form f meets, each as the message naming
\* its field
C6_Offending(f) ==
    LET max == Number(f.maxMarks)
        obt == Number(f.obtainedMarks)
        rank == Number(f.testRank)
        tot == Number(f.totalTestTakers)
        BadCount(c) == ~IsNum(Number(c)) \/ Number(c).n < 0
    IN  (IF Trim(f.subject).s = "" THEN {"Please enter subject."} ELSE {})
        \cup (IF ~IsNum(max) \/ max.n <= 0
              THEN {"Max marks should be a positive number."} ELSE {})
        \cup (IF ~IsNum(obt) \/ obt.n < 0
              THEN {"Obtained marks should be a non-negative number."} ELSE {})
        \cup (IF IsNum(obt) /\ IsNum(max) /\ obt.n > max.n
              THEN {"Obtained marks cannot be greater than Max Marks."} ELSE {})
        \cup (IF BadCount(f.correctCount)
              THEN {"Correct count must be a non-negative number."} ELSE {})
        \cup (IF BadCount(f.incorrectCount)
              THEN {"Incorrect count must be a non-negative number."} ELSE {})
        \cup (IF BadCount(f.notAttemptedCount)
              THEN {"Not Attempted count must be a non-negative number."} ELSE {})
        \cup (IF f.testRank.s # "" /\ f.totalTestTakers.s # "" /\ IsNum(rank) /\ rank.n <= 0
              THEN {"Your Rank must be a positive number."} ELSE {})
        \cup (IF f.testRank.s # "" /\ f.totalTestTakers.s # "" /\ IsNum(tot) /\ tot.n <= 0
              THEN {"Total Test Takers must be a positive number."} ELSE {})
        \cup (IF f.testRank.s # "" /\ f.totalTestTakers.s # ""
                 /\ IsNum(rank) /\ IsNum(tot) /\ rank.n > tot.n
              THEN {"Your Rank cannot be greater than Total Test Takers."} ELSE {})

\* C6: handleAddOrUpdate on a form with a blank subject, a maxMarks that is no
\* number or <= 0, an obtainedMarks that is NaN, negative or above maxMarks, a
\* count that is NaN or negative, or (both rank fields given) a rank or total
\* <= 0 or a rank above the total, leaves the store unchanged and shows an
\* error naming one of the offending fields.
C6_InvalidRejected ==
    [][(HandleAddOrUpdate(Len(tests) + 1) /\ C6_Offending(form) # {})
          => /\ tests' = tests
             /\ toastAlert'.type = "error"
             /\ toastAlert'.message \in C6_Offending(form)]_vars

\* 35 of 30 was submitted over a store of one entity and refused
C6_Witness ==
    /\ Number(form.maxMarks) = Num(30)
    /\ Number(form.obtainedMarks) = Num(35)
    /\ toastAlert = Toast("Obtained marks cannot be greater than Max Marks.", "error")
    /\ Len(tests) = 1

\* C8: every stored entity has correctCount, incorrectCount and
\* notAttemptedCount all three null or all three non-null.
C8_CountsAllOrNothing ==
    \A e \in Entities :
        \/ e.correctCount = Null /\ e.incorrectCount = Null /\ e.notAttemptedCount = Null
        \/ e.correctCount # Null /\ e.incorrectCount # Null /\ e.notAttemptedCount # Null

\* C9: every entity of the stored collection, exported with handleExportJSON
\* and read back by handleImportJSON, is the same entity field for field.
C9_RoundTrip ==
    LET data == ExportedJSON(tests).items
    IN  \A i \in 1..Len(tests) : Normalized(data[i], Undef) = tests[i]

\* C10: importing a text that is no JSON, or a JSON object, shows an error and
\* leaves the stored collection as it was.
C10_BadPayloadRejected ==
    [][\A payload \in {Unparsable, JsonObject} :
          HandleImportJSON(payload, <<>>, Len(tests))
             => (tests' = tests /\ toastAlert'.type = "error")]_vars

\* a JSON object was imported over a store of one entity and refused
C10_Witness ==
    /\ toastAlert = Toast("Failed to import: Invalid file format. Ensure it's an array of test objects.", "error")
    /\ Len(tests) = 1

\* C11: importing an array with one malformed element (null, no object) and
\* n >= 1 well-formed ones succeeds and adds the n well-formed elements,
\* normalized, to the store.
C11_LenientImport ==
    [][\A payload \in Payloads(IdElements, MaxBatch + 1) :
         \A us \in UidChoices(payload.items) :
            LET data == payload.items
                good == SelectSeq(data, LAMBDA d : d # NullElement)
            IN  (/\ payload.kind = "array"
                 /\ Len(data) >= 2
                 /\ Len(good) = Len(data) - 1
                 /\ HandleImportJSON(payload, us, Len(tests) + Len(data)))
                => /\ toastAlert'.type = "success"
                   /\ Len(tests') = Len(tests) + Len(good)
                   /\ \A i \in 1..Len(good) :
                         \E j \in 1..Len(tests') :
                            \E u \in {Undef} \cup Uid(HeldIds \cup Ids(data)) :
                               tests'[j] = Normalized(good[i], u)]_vars


\* the entity t satisfies every active predicate of the filters
C12_Satisfies(t) ==
    /\ filterProvider = Str("All") \/ t.provider = filterProvider
    /\ filterSubject = Str("All") \/ t.subject = filterSubject
    /\ dateFrom # Str("") => IsDate(t.date) /\ t.date.n >= dateFrom.n
    /\ dateTo # Str("") => IsDate(t.date) /\ t.date.n <= dateTo.n
    /\ search # Str("") =>
          \E f \in {"subject", "notes", "category", "provider"} :
             Includes(ToLowerCase(t[f].s), ToLowerCase(search.s))

\* C12: the filtered collection is the subsequence, in stored order, of the
\* entities that satisfy every active predicate: provider and subject equal to
\* the selection or the selection "All", date within the inclusive bounds that
\* are set, and the search text, if set, occurring (whatever the case of the
\* letters) in subject, notes, category or provider.
C12_FilteredIsSubsequence == Filtered = SelectSeq(tests, C12_Satisfies)

\* the sum of the numbers seq[i][field], in units of 1/Scale
RECURSIVE TotalOf(_, _)
TotalOf(seq, field) ==
    IF seq = <<>> THEN 0 ELSE Head(seq)[field].n + TotalOf(Tail(seq), field)

\* the number p is the mean sum / count rounded to two decimals
IsRound2Mean(p, sum, count) ==
    /\ IsNum(p)
    /\ (p.n * 100) % Scale = 0
    /\ IsRounded((p.n * 100) \div Scale, sum * 100, Scale * count)

C15_WeakestSubjects ==
    LET SA == Summary.subjectAverages
        W == TopWeakestSubjects
        listed == {W[k] : k \in 1..Len(W)}
    IN  /\ listed \subseteq {SA[k] : k \in 1..Len(SA)}
        /\ \A g \in listed : g.avg.n < 65 * Scale
        /\ \A k, l \in 1..Len(W) : k < l => W[k].avg.n <= W[l].avg.n
        /\ Len(W) <= 5
        /\ \A k \in 1..Len(SA) :
              (\E g \in listed : SA[k].avg.n < g.avg.n) => SA[k] \in listed

\* the search keeps seven groups, six of them below 65: the list holds five,
\* the group of 60 percent is left out
C15_Witness ==
    /\ search = Str("WISE")
    /\ Len(Summary.subjectAverages) >= 7
    /\ Len(TopWeakestSubjects) = 5
    /\ TopWeakestSubjects[1].avg = Num(10)
    /\ TopWeakestSubjects[5].avg = Num(50)
    /\ \E k \in 1..Len(Summary.subjectAverages) : Summary.subjectAverages[k].avg = Num(60)

\* series holds one point for each entity of qual, in ascending order of
\* date, entities of the same date in the order they have in qual
C16_IsTrendOf(series, qual, Point(_)) ==
    /\ Len(series) = Len(qual)
    /\ \E p \in Permutations(1..Len(qual)) :
          /\ \A i \in 1..Len(qual) : series[i] = Point(qual[p[i]])
          /\ \A i, j \in 1..Len(qual) :
                i < j => /\ ~Gt(DateValue(qual[p[i]].date), DateValue(qual[p[j]].date))
                         /\ qual[p[i]].date = qual[p[j]].date => p[i] < p[j]

\* C16: each of the three trend series is in ascending order of date, holds
\* one point for each qualifying entity of the filtered collection (overall:
\* every entity; full-test: category Multisubject Wise, Full Length or Mock;
\* rank: rankPercentile not null), and keeps entities of the same date in the
\* order they have in the filtered collection.
C16_TrendSeries ==
    /\ \A m \in OverallTrendChartData(Mem) :
          C16_IsTrendOf(m.out, Filtered, TrendPoint)
    /\ \A m \in FullTestChartData(Mem) :
          C16_IsTrendOf(m.out,
                        SelectSeq(Filtered, LAMBDA t : t.category \in
                                     {Str("Multisubject Wise"), Str("Full Length"), Str("Mock")}),
                        FullTestPoint)
    /\ \A m \in RankChartData(Mem) :
          C16_IsTrendOf(m.out, SelectSeq(Filtered, LAMBDA t : t.rankPercentile # Null),
                        RankPoint)

\* C17: computing the filtered collection, the summary with the subject
\* averages, the weakest-subjects list, the three trend series, and the JSON
\* and CSV exports leaves the stored collection and the filtered collection
\* as they were, contents and order.
C17_InputsUnchanged ==
    /\ \A m \in FilteredMemo(Mem) : m.tests = tests
    /\ \A m \in SummaryMemo(Mem) : m.tests = tests /\ m.filtered = Filtered
    /\ \A m \in TopWeakestSubjectsMemo(Mem) : m.tests = tests /\ m.filtered = Filtered
    /\ \A m \in OverallTrendChartData(Mem) : m.tests = tests /\ m.filtered = Filtered
    /\ \A m \in FullTestChartData(Mem) : m.tests = tests /\ m.filtered = Filtered
    /\ \A m \in RankChartData(Mem) : m.tests = tests /\ m.filtered = Filtered
    /\ \A m \in HandleExportJSON(Mem) : m.tests = tests /\ m.filtered = Filtered
    /\ \A m \in HandleExportCSV(Mem) : m.tests = tests /\ m.filtered = Filtered

\* the provider filter keeps two of three entities, newest first, and the
\* overall trend has them oldest first
C17_Witness ==
    /\ Len(tests) = 3
    /\ Len(Filtered) = 2
    /\ IsDate(Filtered[1].date) /\ IsDate(Filtered[2].date)
    /\ Filtered[1].date.n > Filtered[2].date.n
    /\ \E m \in OverallTrendChartData(Mem) :
          /\ m.arr = <<Filtered[2], Filtered[1]>>
          /\ m.out[1].name = Filtered[2].date

\* the values csvEscape is looked at on, besides those of the stored entities
C18_Values ==
    {Null, Undef, NaN, Num(0), Num(5), NumHalf(22), DateStr(1), Str(""), Str("plain"),
     Str("a,b"), Str("line1\nline2"), Str("say \"hi\""), Str("\""), Str("\"\""),
     Str("\"a\",\n\"b\""), Str(" "), Str("semi;colon")}

\* r with every pair of double quotes made one; "?" for a quote that is single
RECURSIVE C18_Undoubled(_)
C18_Undoubled(r) ==
    IF r = "" THEN ""
    ELSE IF SubSeq(r, 1, 1) # "\"" THEN SubSeq(r, 1, 1) \o C18_Undoubled(SubSeq(r, 2, Len(r)))
    ELSE IF Len(r) >= 2 /\ SubSeq(r, 2, 2) = "\"" THEN "\"" \o C18_Undoubled(SubSeq(r, 3, Len(r)))
    ELSE "?"

\* r is text wrapped in double quotes, every double quote of text doubled
C18_IsQuoted(r, text) ==
    /\ Len(r) >= 2
    /\ SubSeq(r, 1, 1) = "\"" /\ SubSeq(r, Len(r), Len(r)) = "\""
    /\ Len(r) = Len(text) + 2
                   + Cardinality({i \in 1..Len(text) : SubSeq(text, i, i) = "\""})
    /\ C18_Undoubled(SubSeq(r, 2, Len(r) - 1)) = text

\* the text a reader of the CSV file takes the field r for
C18_Unescaped(r) ==
    IF Len(r) >= 2 /\ SubSeq(r, 1, 1) = "\"" /\ SubSeq(r, Len(r), Len(r)) = "\""
    THEN C18_Undoubled(SubSeq(r, 2, Len(r) - 1))
    ELSE r

\* C18: csvEscape gives "" for null and undefined; for every other value, the
\* text of the value wrapped in double quotes with every double quote in it
\* doubled if the text has a comma, a newline or a double quote in it, and
\* the text as it is if not; un-escaping what it gives is the text again.
C18_CsvEscape ==
    \A val \in C18_Values \cup UNION {{CsvValues(t)[k] : k \in 1..Len(CsvHeaders)} : t \in Entities} :
       IF val = Null \/ val = Undef THEN CsvEscape(val) = ""
       ELSE LET text == TextOf(String(val))
                special == \E i \in 1..Len(text) : SubSeq(text, i, i) \in {",", "\n", "\""}
            IN  /\ special => C18_IsQuoted(CsvEscape(val), text)
                /\ ~special => CsvEscape(val) = text
                /\ C18_Unescaped(CsvEscape(val)) = text

\* a stored entity has the notes  say "hi"  and the file of the CSV export
\* holds them quoted, the quotes inside doubled
C18_Witness ==
    /\ \E e \in Entities : e.notes = Str("say \"hi\"")
    /\ \E m \in HandleExportCSV(Mem) : Includes(m.out, ",\"say \"\"hi\"\"\"")

\* C19: submitting the form that holds the id of an entity no longer in the
\* store (deleted or cleared after Edit was clicked) fails with an error and
\* leaves the store as it is: no entity is inserted.
C19_UpdateOfAbsentIdFails ==
    [][(/\ HandleAddOrUpdate(Len(tests) + 1)
        /\ Truthy(form.id)
        /\ form.id \notin Ids(tests))
          => (tests' = tests /\ toastAlert'.type = "error")]_vars

-----------------------------------------------------------------------------
(* Category and subject of a saved entity *)

\* Subject: the category and the subject vary, in the form and in the
\* imported elements
SubjectTyped ==
    {<<"maxMarks", Text(30)>>, <<"obtainedMarks", TextHalf(22)>>}

SubjectCategories == {TEST_CATEGORIES[1], TEST_CATEGORIES[4], TEST_CATEGORIES[5]}

SubjectSubjects == {FIRST_SUBJECT, "Control Systems"}

SubjectElements ==
    {BaseElement,
     [BaseElement EXCEPT !.category = Str(TEST_CATEGORIES[5])],
     [BaseElement EXCEPT !.category = Str(TEST_CATEGORIES[4]),
                         !.subject = Str(DEFAULT_MULTI_SUBJECT)]}

NextSubject ==
    NextOf(SubjectTyped, SubjectCategories, SubjectSubjects, SubjectElements,
           MaxTests, MaxBatch)

SpecSubject == Init /\ [][NextSubject]_vars

\* C20: the entity a submit of the form saves has the multi-subject subject
\* when its category is not a subject-required one, whatever category changes,
\* subject changes, edits and resets came before the submit.
C20_SavedSubjectForced ==
    [][(HandleAddOrUpdate(Len(tests) + 1) /\ ValidationError(form) = "")
          => \A i \in 1..Len(tests') :
                (/\ IF Truthy(form.id) THEN tests'[i].id = form.id
                                       ELSE tests'[i].id \notin Ids(tests)
                 /\ tests'[i].category.s \notin SUBJECT_REQUIRED_CATEGORIES)
                   => tests'[i].subject = Str(DEFAULT_MULTI_SUBJECT)]_vars

-----------------------------------------------------------------------------
(* TestEntryForm: the mock-test entry form and the mock_tests collection *)

\* parseFloat(v) of a number, of the text of a number, and of ''
ParseFloat(v) ==
    CASE v.t = "number" -> v
      [] v.t = "string" /\ v.s = "#num" -> Raw(v.n)
      [] OTHER -> NaN

\* x > y of the relational comparison: a string operand is converted by Number
GtJs(x, y) == Gt(Number(x), Number(y))

\* x.toFixed(1) for x = 100 * c / a, a > 0, as the text of a number: the
\* nearest tenth, the larger in magnitude of two equally near
ToFixed1(c, a) ==
    NumStr(Raw((IF c >= 0 THEN (2000 * c + a) \div (2 * a)
                          ELSE 0 - ((2000 * (0 - c) + a) \div (2 * a)))
               * (Scale \div 10)))

\* the stats memo of the form data fd
Stats(fd) ==
    LET correct == Or(ParseFloat(fd.correct), Raw(0))
        wrong == Or(ParseFloat(fd.wrong), Raw(0))
        totalQuestions == Or(ParseFloat(fd.totalQuestions), Num(65))
        attemptedQuestions == correct.n + wrong.n
        unattempted == totalQuestions.n - attemptedQuestions
    IN  [accuracy |-> IF attemptedQuestions > 0
                      THEN ToFixed1(correct.n, attemptedQuestions)
                      ELSE NumStr(Raw(0)),
         unattempted |-> IF unattempted >= 0 THEN Raw(unattempted) ELSE Raw(0)]

TEST_TYPES == {"Full Length Mock", "Subject Wise", "Topic Wise"}

\* the inputs handleChange parses: those of type number
NumberInputs ==
    {"totalQuestions", "totalMarks", "timeTaken", "marksObtained",
     "negativeMarks", "rank", "totalStudents", "correct", "wrong"}

\* handleChange of the input called name; value is e.target.value, for an
\* input of type number the text of a number or ''.  The inputs of
\* totalQuestions and totalMarks are readOnly but in the type Topic Wise.
HandleChange(name, value) ==
    /\ name \in {"totalQuestions", "totalMarks"} => formData.testType = Str("Topic Wise")
    /\ name = "testType" => value.s \in TEST_TYPES
    /\ LET set == [formData EXCEPT ![name] =
                      IF name \in NumberInputs
                      THEN (IF value = Str("") THEN Str("") ELSE ParseFloat(value))
                      ELSE value]
       IN  formData' =
              IF name # "testType" THEN set
              ELSE IF value = Str("Full Length Mock")
                   THEN [set EXCEPT !.totalQuestions = Num(65), !.totalMarks = Num(100)]
              ELSE IF value = Str("Subject Wise")
                   THEN [set EXCEPT !.totalQuestions = Num(40), !.totalMarks = Num(50)]
              ELSE [set EXCEPT !.totalQuestions = Num(30), !.totalMarks = Num(30)]
    /\ UNCHANGED <<tracker, error, mockTests, fetch>>

\* the message handleSubmit sets and returns with, "" when it goes on to save
SubmitError(fd, db) ==
    LET attemptedQuestions ==
            ParseFloat(Or(fd.correct, Raw(0))).n + ParseFloat(Or(fd.wrong, Raw(0))).n
    IN  IF ~db THEN "Database connection not ready."
        ELSE IF \/ ~Truthy(fd.provider)
                \/ ~Truthy(fd.date)
                \/ \E f \in {"marksObtained", "rank", "totalStudents", "correct",
                             "wrong", "negativeMarks"} : fd[f] = Str("")
            THEN "Please fill in all essential fields: Provider, Date, Marks, Rank, Total Takers, Correct, Wrong, and Negative Marks."
        ELSE IF GtJs(Raw(attemptedQuestions), fd.totalQuestions)
            THEN "Data mismatch: Total Attempted questions exceed Total Questions."
        ELSE IF GtJs(fd.marksObtained, fd.totalMarks)
            THEN "Data mismatch: Obtained Marks cannot exceed Total Marks."
        ELSE ""

\* the document handleSubmit adds
NewTest(fd) ==
    [platform |-> fd.provider,
     testType |-> fd.testType,
     testName |-> Or(fd.testName, Str(fd.testType.s \o " Test")),
     date |-> fd.date,
     totalQuestions |-> fd.totalQuestions,
     totalMarks |-> fd.totalMarks,
     unattempted |-> Or(ParseFloat(Stats(fd).unattempted), Raw(0)),
     accuracy |-> ParseFloat(Stats(fd).accuracy),
     timeTaken |-> Or(ParseFloat(fd.timeTaken), Raw(0)),
     marks |-> ParseFloat(fd.marksObtained),
     negativeMarks |-> ParseFloat(fd.negativeMarks),
     rank |-> ParseFloat(fd.rank),
     totalStudents |-> ParseFloat(fd.totalStudents),
     correct |-> ParseFloat(fd.correct),
     incorrect |-> ParseFloat(fd.wrong)]

\* handleSubmit; db: the database connection is there; stored: addDoc
\* resolves (it rejects otherwise); cap: the model lets the collection grow
\* to cap documents
HandleSubmit(db, stored, cap) ==
    IF SubmitError(formData, db) # ""
    THEN /\ error' = SubmitError(formData, db)
         /\ UNCHANGED <<tracker, formData, mockTests, fetch>>
    ELSE IF stored
    THEN /\ Len(mockTests) < cap
         /\ mockTests' = Append(mockTests, NewTest(formData))
         /\ error' = ""
         /\ formData' = [formData EXCEPT !.testName = Str(""),
                                         !.marksObtained = Str(""),
                                         !.negativeMarks = Str(""),
                                         !.rank = Str(""),
                                         !.totalStudents = Str(""),
                                         !.correct = Str(""),
                                         !.wrong = Str(""),
                                         !.timeTaken = Str(""),
                                         !.date = DateStr(Today)]
         /\ UNCHANGED <<tracker, fetch>>
    ELSE /\ error' = "Failed to save test data to the cloud. Please try again."
         /\ UNCHANGED <<tracker, formData, mockTests, fetch>>

\* Mock: what is typed into the mock-test entry form
MockTyped ==
    {<<"totalQuestions", Str("")>>, <<"totalQuestions", Text(0)>>,
     <<"totalQuestions", Text(10)>>,
     <<"correct", Str("")>>, <<"correct", Text(0)>>, <<"correct", Text(50)>>,
     <<"correct", Text(5)>>,
     <<"wrong", Text(0)>>, <<"wrong", Text(10)>>, <<"wrong", Text(5)>>,
     <<"marksObtained", Text(20)>>, <<"negativeMarks", Text(0)>>,
     <<"rank", Text(15)>>, <<"totalStudents", Text(500)>>}

NextMock ==
    \/ \E fv \in MockTyped : HandleChange(fv[1], fv[2])
    \/ \E ty \in TEST_TYPES : HandleChange("testType", Str(ty))
    \/ \E db \in BOOLEAN : \E stored \in BOOLEAN : HandleSubmit(db, stored, MaxTests)

SpecMock == Init /\ [][NextMock]_vars

\* the number typed into a field of the form, 0 for a field that is empty
TypedNumber(v) == IF IsNum(v) THEN v.n ELSE 0

\* C21: whenever the form holds a number as totalQuestions, the stats show
\* accuracy = correct / (correct + wrong) * 100 to the nearest tenth when
\* correct + wrong > 0 and 0 otherwise, and unattempted = totalQuestions -
\* (correct + wrong), or 0 when that is negative (50, 10 and 65 give 5 and 83.3)
C21_Stats ==
    LET c == TypedNumber(formData.correct)
        w == TypedNumber(formData.wrong)
        accuracy == ParseFloat(Stats(formData).accuracy)
        unattempted == Stats(formData).unattempted
    IN  /\ IsNum(accuracy)
        /\ IF c + w > 0
           THEN /\ accuracy.n % (Scale \div 10) = 0
                /\ LET d == accuracy.n * (c + w) - 100 * Scale * c
                   IN  2 * d <= (Scale \div 10) * (c + w) /\ 2 * (0 - d) <= (Scale \div 10) * (c + w)
           ELSE accuracy = Raw(0)
        /\ IsNum(formData.totalQuestions) =>
              /\ IsNum(unattempted)
              /\ unattempted.n >= 0
              /\ unattempted.n = IF formData.totalQuestions.n - (c + w) >= 0
                                 THEN formData.totalQuestions.n - (c + w)
                                 ELSE 0
              /\ (c = 50 * Scale /\ w = 10 * Scale /\ formData.totalQuestions = Num(65))
                    => (unattempted = Num(5) /\ accuracy = Raw(83 * Scale + 3 * (Scale \div 10)))

\* C22: every mock test handleSubmit has written has numbers as its counts
\* with correct + incorrect + unattempted = totalQuestions
C22_CountsAddUp ==
    \A i \in 1..Len(mockTests) :
        LET d == mockTests[i]
        IN  /\ IsNum(d.correct) /\ IsNum(d.incorrect) /\ IsNum(d.unattempted)
            /\ IsNum(d.totalQuestions)
            /\ d.correct.n + d.incorrect.n + d.unattempted.n = d.totalQuestions.n

-----------------------------------------------------------------------------
(* The import normalization on its own output *)

\* Derive: elements of every shape the normalization tells apart are
\* imported, and the store is cleared
DeriveElements ==
    {BaseElement,
     [BaseElement EXCEPT !.id = UidStr(1), !.notes = Str("revise")],
     [BaseElement EXCEPT !.maxMarks = Text(30), !.correctCount = Num(3),
                         !.incorrectCount = Num(0), !.notAttemptedCount = Num(-1)],
     [BaseElement EXCEPT !.maxMarks = Undef, !.subject = Undef,
                         !.category = Undef, !.provider = Undef],
     [BaseElement EXCEPT !.maxMarks = Str("abc"), !.correctCount = Text(3)],
     [BaseElement EXCEPT !.obtainedMarks = Num(35), !.percentage = Num(99)],
     [BaseElement EXCEPT !.testRank = Num(15), !.totalTestTakers = Num(500),
                         !.rankPercentile = Num(5)],
     [BaseElement EXCEPT !.testRank = Num(20), !.totalTestTakers = Num(10)],
     [BaseElement EXCEPT !.testRank = Num(3)],
     [BaseElement EXCEPT !.date = Undef],
     [BaseElement EXCEPT !.date = Str("soon"), !.obtainedMarks = Null],
     [BaseElement EXCEPT !.obtainedMarks = Text(-1), !.notes = Null],
     [BaseElement EXCEPT !.maxMarks = Num(0), !.testRank = Text(15),
                         !.totalTestTakers = Text(500)],
     [BaseElement EXCEPT !.maxMarks = Infinity, !.obtainedMarks = Infinity]}

NextDerive ==
    \/ \E payload \in Payloads(DeriveElements, MaxBatch) :
          \E us \in UidChoices(payload.items) :
             HandleImportJSON(payload, us, MaxTests)
    \/ \E i \in 1..Len(tests) : HandleDelete(tests[i].id)
    \/ HandleClearAll
    \/ ConfirmClick
    \/ CancelClick
    \/ CloseToast

SpecDerive == Init /\ [][NextDerive]_vars

\* C23: normalizing an entity the import normalization has made gives the same
\* entity, field for field, whatever uid() returns
C23_DeriveIdempotent ==
    \A i \in 1..Len(tests) : \A u \in {UidStr(k) : k \in 1..MaxId} :
        Normalized(tests[i], u) = tests[i]

\* an imported entity with a count, a second one with a rank pair, or one
\* whose missing fields were filled in
C23_Witness ==
    /\ toastAlert = Toast("Data imported successfully!", "success")
    /\ \E i \in 1..Len(tests) :
          \/ tests[i].correctCount = Num(3) /\ tests[i].incorrectCount = Null
          \/ tests[i].testRank = Num(15) /\ tests[i].rankPercentile = Raw(97 * Scale)
          \/ tests[i].subject = Str("Unknown") /\ tests[i].percentage = Raw(0)

-----------------------------------------------------------------------------
(* Persistence: the save effect and a reload of the page *)

\* a reload of the page: the component is mounted anew, tests starts as the
\* stored value reads, every other state as useState sets it, and the save
\* effect runs.  The mock_tests collection is kept by the database.
Reload ==
    /\ tests' = InitialTests(localStorage)
    /\ form' = EmptyForm
    /\ confirmModal' = NoModal
    /\ toastAlert' = NoToast
    /\ filterProvider' = Str("All")
    /\ filterSubject' = Str("All")
    /\ dateFrom' = Str("")
    /\ dateTo' = Str("")
    /\ search' = Str("")
    /\ SaveEffect
    /\ formData' = FormDataInit
    /\ error' = ""
    /\ fetch' = FetchIdle
    /\ UNCHANGED mockTests

\* Persist: entities are added through the form and imported, one of them
\* from a file with the numeral 1e999, and the page is reloaded
PersistTyped ==
    {<<"maxMarks", Text(30)>>, <<"obtainedMarks", TextHalf(22)>>,
     <<"correctCount", Text(0)>>, <<"notes", Str("revise")>>}

PersistElements ==
    {BaseElement,
     [BaseElement EXCEPT !.id = UidStr(1), !.testRank = Num(15),
                         !.totalTestTakers = Num(500)],
     [BaseElement EXCEPT !.maxMarks = Infinity]}

\* what the page finds stored when it is first opened
PersistStored ==
    {NoItem, Unparsable, JsonText(<<>>),
     JsonText(<<Normalized([BaseElement EXCEPT !.id = UidStr(1)], Undef)>>)}

InitPersist ==
    /\ \E raw \in PersistStored :
          /\ tests = InitialTests(raw)
          /\ localStorage = Stringify(InitialTests(raw))
    /\ form = EmptyForm
    /\ confirmModal = NoModal
    /\ toastAlert = NoToast
    /\ FiltersInit
    /\ ElsewhereInit

NextPersist ==
    \/ NextOf(PersistTyped, {TEST_CATEGORIES[1]}, {FIRST_SUBJECT}, PersistElements,
              MaxTests, MaxBatch)
    \/ Reload

SpecPersist == InitPersist /\ [][NextPersist]_vars

\* C24: the stored value is the serialization of the collection, and a reload
\* restores the collection that was shown: what the stored value reads as is
\* the collection, entity for entity and field for field.
C24_ReloadRestores ==
    /\ localStorage = Stringify(tests)
    /\ InitialTests(localStorage) = tests

\* C25: handleDelete and handleClearAll open the confirmation modal and leave
\* the collection as it is; the collection gets shorter only in a step of the
\* modal's Confirm; Cancel leaves it as it is; after either button the modal
\* is closed.
C25_DeleteIsConfirmed ==
    [][/\ (\E i \in 1..Len(tests) : HandleDelete(tests[i].id))
            => (tests' = tests /\ confirmModal'.kind = "delete")
       /\ HandleClearAll => (tests' = tests /\ confirmModal'.kind = "clear")
       /\ Len(tests') < Len(tests) => (confirmModal # NoModal /\ ConfirmClick)
       /\ CancelClick => (tests' = tests /\ confirmModal' = NoModal)
       /\ ConfirmClick => confirmModal' = NoModal]_vars

\* a delete was confirmed and has emptied the collection
C25_Witness ==
    /\ tests = <<>>
    /\ confirmModal = NoModal
    /\ toastAlert = Toast("Test deleted.", "success")

\* seq without its i-th element
C26_Without(seq, i) == SubSeq(seq, 1, i - 1) \o SubSeq(seq, i + 1, Len(seq))

\* a step that saves the form for an id in the store changes one entity, which
\* becomes the entry of the form under the same id; a step that confirms a
\* delete takes one entity of that id out
C26_Step ==
    /\ (/\ HandleAddOrUpdate(Len(tests) + 1)
        /\ ValidationError(form) = ""
        /\ form.id \in Ids(tests))
          => /\ Len(tests') = Len(tests)
             /\ \E i \in 1..Len(tests) :
                   /\ tests[i].id = form.id
                   /\ tests'[i] = Entry(form, Undef)
                   /\ tests'[i].id = tests[i].id
                   /\ \A j \in 1..Len(tests) : j # i => tests'[j] = tests[j]
    /\ (ConfirmClick /\ confirmModal.kind = "delete")
          => \E i \in 1..Len(tests) :
                /\ tests[i].id = confirmModal.id
                /\ tests' = C26_Without(tests, i)

\* C26: saving an edit for an id in the store replaces that entity as a whole,
\* in place, keeping its id, the length of the collection and every other
\* entity where it is; a confirmed delete removes the entity of that id and
\* leaves every other entity, in the same order.
C26_OnlyTheTarget == [][C26_Step]_vars

-----------------------------------------------------------------------------
(* The order of the collection *)

\* Order: entities of different days are added and imported, and the date of
\* a stored entity is changed in the form to an earlier and to a later day
OrderTyped ==
    {<<"maxMarks", Text(30)>>, <<"obtainedMarks", TextHalf(22)>>,
     <<"date", DateStr(1)>>, <<"date", DateStr(Today + 1)>>}

OrderElements ==
    {BaseElement, [BaseElement EXCEPT !.date = DateStr(Today)]}

NextOrder ==
    NextOf(OrderTyped, {TEST_CATEGORIES[1]}, {FIRST_SUBJECT}, OrderElements,
           MaxTests + 1, MaxBatch)

SpecOrder == Init /\ [][NextOrder]_vars

\* C27: the stored collection is ordered by date, newest first: no entity
\* comes before an entity of a later day
C27_NewestFirst ==
    \A i, j \in 1..Len(tests) :
        i < j => ~Lt(DateValue(tests[i].date), DateValue(tests[j].date))

\* C28: the entity a submit of the form saves does not have the multi-subject
\* subject when its category is a subject-required one, whatever category
\* changes, subject changes, edits and resets came before the submit.
C28_NoSentinelWithRequired ==
    [][(HandleAddOrUpdate(Len(tests) + 1) /\ ValidationError(form) = "")
          => \A i \in 1..Len(tests') :
                (/\ IF Truthy(form.id) THEN tests'[i].id = form.id
                                       ELSE tests'[i].id \notin Ids(tests)
                 /\ tests'[i].category.s \in SUBJECT_REQUIRED_CATEGORIES)
                   => tests'[i].subject # Str(DEFAULT_MULTI_SUBJECT)]_vars

\* C29: a submit of the form as handleEdit has loaded it from a stored entity
\* leaves that entity as it is, field for field.
C29_EditUnchangedIsIdentity ==
    [][\A i \in 1..Len(tests) :
          (/\ ~FormatDateInputThrows(tests[i].date)
           /\ form = EditForm(tests[i])
           /\ HandleAddOrUpdate(Len(tests) + 1))
             => (Len(tests') = Len(tests) /\ tests'[i] = tests[i])]_vars

-----------------------------------------------------------------------------
(* fetchWithRetry *)

\* maxRetries = 3, the default
DEFAULT_MAX_RETRIES == 3

\* what a call of fetch comes to: a response that is ok, a response that is
\* not ok whose body is JSON with an error message, one whose body is no
\* JSON, or a rejection
Outcomes == {"ok", "429 json", "500", "503", "rejected"}

\* the message of the error the attempt ends with
ErrorOf(outcome) ==
    CASE outcome = "429 json" -> "Quota exceeded"
      [] outcome = "500" -> "HTTP error! status: 500"
      [] outcome = "503" -> "HTTP error! status: 503"
      [] OTHER -> "Failed to fetch"

\* Math.pow(2, i), in seconds
RECURSIVE Pow2(_)
Pow2(i) == IF i = 0 THEN 1 ELSE 2 * Pow2(i - 1)

\* a loop that goes one round further
LoopGoesOnOnceMore(i, maxRetries) == i <= maxRetries

\* the for loop's condition
LoopGoesOn(i, maxRetries) == i < maxRetries

\* the call as it stands f, at the loop's condition with the counter at i:
\* the next call of fetch, or throw error
AtLoop(f, i) ==
    IF LoopGoesOn(i, f.maxRetries)
    THEN [f EXCEPT !.pc = "fetching", !.i = i]
    ELSE [f EXCEPT !.pc = "thrown", !.i = i]

\* fetchWithRetry(url, options, maxRetries) is called
FetchWithRetry(maxRetries) ==
    /\ fetch.pc = "idle"
    /\ fetch' = AtLoop([FetchIdle EXCEPT !.maxRetries = maxRetries], 0)
    /\ UNCHANGED <<tracker, formData, error, mockTests>>

\* the fetch of round i settles with the outcome: the response is returned,
\* or the error is caught and the wait begins if another round remains
FetchSettles(outcome) ==
    /\ fetch.pc = "fetching"
    /\ LET f == [fetch EXCEPT !.attempts = Append(@, outcome)]
       IN  fetch' =
              IF outcome = "ok" THEN [f EXCEPT !.pc = "returned", !.result = "response"]
              ELSE LET caught == [f EXCEPT !.error = ErrorOf(outcome)]
                   IN  IF fetch.i < fetch.maxRetries - 1
                       THEN [caught EXCEPT !.pc = "waiting",
                                           !.delays = Append(@, Pow2(fetch.i))]
                       ELSE AtLoop(caught, fetch.i + 1)
    /\ UNCHANGED <<tracker, formData, error, mockTests>>

\* the timer of the wait fires
FetchTimer ==
    /\ fetch.pc = "waiting"
    /\ fetch' = AtLoop(fetch, fetch.i + 1)
    /\ UNCHANGED <<tracker, formData, error, mockTests>>

\* the caller goes on with the response, or with the error in its catch
FetchDone ==
    /\ fetch.pc \in {"returned", "thrown"}
    /\ fetch' = FetchIdle
    /\ UNCHANGED <<tracker, formData, error, mockTests>>

NextFetch ==
    \/ \E maxRetries \in 0..DEFAULT_MAX_RETRIES : FetchWithRetry(maxRetries)
    \/ \E outcome \in Outcomes : FetchSettles(outcome)
    \/ FetchTimer
    \/ FetchDone

\* every fetch settles, and every timer fires
SpecFetch ==
    /\ Init
    /\ [][NextFetch]_vars
    /\ WF_vars(\E outcome \in Outcomes : FetchSettles(outcome))
    /\ WF_vars(FetchTimer)

\* the attempts made so far have all failed
C30_AllFailed == \A k \in 1..Len(fetch.attempts) : fetch.attempts[k] # "ok"

\* the waits begun so far: 2^i seconds after failed attempt i, for every
\* failed attempt that is not the last one allowed
C30_Delays ==
    LET failed == {k \in 1..Len(fetch.attempts) : fetch.attempts[k] # "ok"}
        n == Cardinality({k \in failed : k - 1 < fetch.maxRetries - 1})
    IN  /\ Len(fetch.delays) = n
        /\ \A k \in 1..n : fetch.delays[k] = Pow2(k - 1)

C30_Bounded ==
    /\ Len(fetch.attempts) <= fetch.maxRetries
    /\ C30_Delays
    /\ fetch.pc = "returned" =>
          /\ fetch.attempts[Len(fetch.attempts)] = "ok"
          /\ \A k \in 1..(Len(fetch.attempts) - 1) : fetch.attempts[k] # "ok"
          /\ fetch.result = "response"
    /\ fetch.pc = "thrown" =>
          /\ Len(fetch.attempts) = fetch.maxRetries
          /\ C30_AllFailed
          /\ fetch.maxRetries > 0 =>
                fetch.error = ErrorOf(fetch.attempts[Len(fetch.attempts)])
    /\ fetch.pc \in {"fetching", "waiting"} => C30_AllFailed

\* C30: a call of fetchWithRetry makes at most maxRetries attempts and comes
\* to an end; it returns the first response that is ok and makes no attempt
\* after it; after failed attempt i it waits 2^i seconds if another attempt
\* remains, and not otherwise; when all maxRetries attempts have failed it
\* throws the error of the last one.
C30_FetchWithRetry ==
    /\ []C30_Bounded
    /\ [][fetch.pc \in {"returned", "thrown"}
             => fetch'.attempts \in {fetch.attempts, <<>>}]_vars
    /\ (fetch.pc \in {"fetching", "waiting"}) ~> (fetch.pc \in {"returned", "thrown"})

\* the third of three attempts has failed after waits of 1 and 2 seconds, and
\* its error is thrown
C30_Witness ==
    /\ fetch.pc = "thrown"
    /\ fetch.maxRetries = DEFAULT_MAX_RETRIES
    /\ fetch.attempts = <<"500", "rejected", "429 json">>
    /\ fetch.delays = <<1, 2>>
    /\ fetch.error = "Quota exceeded"

=============================================================================
